---- MODULE Spec2Model ----
(***************************************************************************)
(* Category hierarchy manager of bugu-store: the category and product      *)
(* request handlers running concurrently against the relational store,     *)
(* and the admin page's client-side tree construction.                     *)
(***************************************************************************)
EXTENDS Integers, Sequences, FiniteSets, Bags, TLC

\* ---------------------------------------------------------------- bounds
\* Number of category rows ever inserted (identifiers 1..MaxCats).
MaxCats == 2
\* Number of product rows ever inserted (identifiers 1..MaxProds).
MaxProds == 1
\* Number of categories held by the admin page in the tree specification.
MaxTreeCats == 3
\* Number of category rows stored when the listing specification starts.
MaxGetCats == 3
\* Number of product rows stored when the catalogue specification starts.
MaxListProds == 2
MaxFormVariants == 3
MaxResends == 1
MaxInFlight == 2

\* The null / absent parent reference (parentId: string | null).
NULL == 0

CatIds == 1..MaxCats
ProdIds == 1..MaxProds
\* Request handlers that may be in flight at the same time.
Clients == {"c1", "c2"}
Concurrency == Cardinality(Clients)

VARIABLES
    categories,      \* table categories: id -> [name, parentId, createdAt]
    products,        \* table products: id -> [name, categoryId, variants]
    catSeq,          \* number of category rows inserted so far
    prodSeq,         \* number of product rows inserted so far
    pending,         \* bag of the requests between their checks and their write
    last,            \* what the step just taken did: request and response
    orderItems,      \* table order_items: the variants the line items reference
    pageCategories,  \* admin page state: categories (the GET result)
    searchTerm,      \* admin page state: searchTerm
    showOnlyParents, \* admin page state: showOnlyParents
    categoryTree,    \* admin page: buildCategoryTree(filteredCategories)
    formData,            \* add-product form: name, categoryId, variants
    currentVariant,      \* add-product form: the variant being entered
    showVariantForm,     \* add-product form: the variant form is shown
    editingVariantIndex, \* add-product form: place of the edited variant, or NULL
    variantClock,        \* add-product form: Date.now() of the last new variant
    code,            \* verify page: the six digit fields
    error,           \* verify page: an error message is shown
    isLoading,       \* verify page: isLoading
    timeLeft,        \* verify page: seconds left
    route,           \* verify page: where the browser is
    requests,        \* verify page: requests sent and not yet answered
    timers,          \* verify page: the interval and the setTimeout callbacks
    resends          \* verify page: codes requested anew so far

storeVars == <<categories, products, catSeq, prodSeq>>
apiVars == <<categories, products, catSeq, prodSeq, pending, last, orderItems>>
pageVars == <<pageCategories, searchTerm, showOnlyParents, categoryTree>>
formVars == <<formData, currentVariant, showVariantForm, editingVariantIndex, variantClock>>
verifyVars == <<code, error, isLoading, timeLeft, route, requests, timers, resends>>
uiVars == <<pageVars, formVars, verifyVars>>
vars == <<categories, products, catSeq, prodSeq, pending, last, orderItems,
          pageCategories, searchTerm, showOnlyParents, categoryTree,
          formData, currentVariant, showVariantForm, editingVariantIndex, variantClock,
          code, error, isLoading, timeLeft, route, requests, timers, resends>>

\* ---------------------------------------------------------------- strings
\* A string is a sequence of one-character strings.
IsSpace(ch) == ch = " "

RECURSIVE trimStart(_)
trimStart(s) == IF s # <<>> /\ IsSpace(Head(s)) THEN trimStart(Tail(s)) ELSE s

RECURSIVE trimEnd(_)
trimEnd(s) ==
    IF s # <<>> /\ IsSpace(s[Len(s)]) THEN trimEnd(SubSeq(s, 1, Len(s) - 1)) ELSE s

\* A handler that forgets to trim.
noTrim(s) == s

\* String.prototype.trim
trim(s) == trimEnd(trimStart(s))

\* ---------------------------------------------------------------- store
\* A store without categories_parentId_fkey.
ParentFkAbsent(cats, parentId) == TRUE

\* categories_parentId_fkey, checked when a row is inserted or updated.
ParentFkHolds(cats, parentId) == parentId = NULL \/ parentId \in DOMAIN cats

\* A deletion that cascades to the child rows.
DeleteCategoryRowCascade(cats, id) ==
    [c \in {d \in DOMAIN cats \ {id} : cats[d].parentId # id} |-> cats[c]]

\* categories_parentId_fkey ... ON DELETE SET NULL: the table after row id is
\* removed.
DeleteCategoryRow(cats, id) ==
    [c \in DOMAIN cats \ {id} |->
        IF cats[c].parentId = id THEN [cats[c] EXCEPT !.parentId = NULL] ELSE cats[c]]

\* products_category_id_fkey, checked when a product is inserted or updated.
CategoryFkHolds(cats, categoryId) == categoryId \in DOMAIN cats

\* A store without products_category_id_fkey's ON DELETE RESTRICT.
ProductFkAbsent(prods, id) == FALSE

\* products_category_id_fkey ... ON DELETE RESTRICT: removal of row id is refused.
ProductFkRestricts(prods, id) == \E p \in DOMAIN prods : prods[p].categoryId = id

\* A count of the child rows and of their child rows.
grandchildrenCount(cats, id) ==
    Cardinality({c \in DOMAIN cats :
        \/ cats[c].parentId = id
        \/ \E d \in DOMAIN cats : cats[d].parentId = id /\ cats[c].parentId = d})

\* include: { children: true } / category.children.length
childrenCount(cats, id) == Cardinality({c \in DOMAIN cats : cats[c].parentId = id})

\* include: { products: { select: { id } } } / category.products.length
productsCount(prods, id) == Cardinality({p \in DOMAIN prods : prods[p].categoryId = id})

\* A store without order_items_variant_id_fkey.
VariantFkAbsent(items, id) == FALSE

\* order_items_variant_id_fkey ... ON DELETE RESTRICT: removal of the variants
\* of product id is refused. A variant is named by its product and its place
\* among the product's variants.
VariantFkRestricts(items, id) == \E it \in items : it[1] = id

\* product_images_product_variant_id_fkey and
\* product_attributes_product_variant_id_fkey ... ON DELETE RESTRICT: removal
\* of the variants of product id is refused while one of them has an image or
\* an attribute.
VariantItemsRestrict(prods, id) ==
    \E i \in DOMAIN prods[id].variants :
        prods[id].variants[i].images # <<>> \/ prods[id].variants[i].attributes # <<>>

\* product_variants_product_id_fkey ... ON DELETE RESTRICT: removal of product
\* id is refused while it has a variant.
VariantsRestrict(prods, id) == prods[id].variants # <<>>

\* A transaction whose steps stay written when a later step throws.
CommitPartial(tx, before) == tx.store

\* prisma.$transaction(async (tx) => ...): the store after the callback
\* returned (commit) or threw (rollback).
Commit(tx, before) == IF tx.ok THEN tx.store ELSE before

\* ---------------------------------------------------------------- requests
Idle == [op |-> "idle"]

\* !name?.trim() is false
NameGiven(body) == "name" \in DOMAIN body /\ trim(body.name) # <<>>

\* parentId || null
ParentOf(body) == IF "parentId" \in DOMAIN body THEN body.parentId ELSE NULL

CategoryNames == {<<>>, <<" ">>, <<" ", "a", " ">>}

\* Request bodies { name, parentId }, either field possibly absent.
CategoryBodies ==
    {[name |-> n, parentId |-> p] : n \in CategoryNames, p \in {NULL} \cup CatIds}
        \cup {[name |-> <<"b">>], [parentId |-> NULL]}

\* The step just taken answered request op with the given status; status 0
\* is a handler that passed its checks and has not written yet.
Reply(op, status) == last' = [op |-> op, status |-> status]

\* A listing that sorts by creation time ascending.
OrderByCreatedAtAsc(cats) ==
    [i \in 1..Cardinality(DOMAIN cats) |->
        CHOOSE id \in DOMAIN cats :
            Cardinality({d \in DOMAIN cats : cats[d].createdAt < cats[id].createdAt}) = i - 1]

\* findMany({ orderBy: { createdAt: 'desc' } }): the identifiers of the rows,
\* the row created last first.
OrderByCreatedAtDesc(cats) ==
    [i \in 1..Cardinality(DOMAIN cats) |->
        CHOOSE id \in DOMAIN cats :
            Cardinality({d \in DOMAIN cats : cats[d].createdAt > cats[id].createdAt}) = i - 1]

\* ({ ...category, productsCount, childrenCount })
GetCategoryRow(cats, prods, id) ==
    [id |-> id, name |-> cats[id].name, parentId |-> cats[id].parentId,
     createdAt |-> cats[id].createdAt,
     productsCount |-> productsCount(prods, id),
     childrenCount |-> childrenCount(cats, id)]

\* GET /categories: the response body.
GetCategories(cats, prods) ==
    [i \in 1..Cardinality(DOMAIN cats) |->
        GetCategoryRow(cats, prods, OrderByCreatedAtDesc(cats)[i])]

\* A response that reports the counts of the parent category.
PostCategoryResponseOfParent(cats, prods, id) ==
    [id |-> id, name |-> cats[id].name, parentId |-> cats[id].parentId,
     productsCount |-> productsCount(prods, cats[id].parentId),
     childrenCount |-> childrenCount(cats, cats[id].parentId)]

\* POST /categories: the response body for the created row id, computed from
\* what prisma.category.create returned with its include.
PostCategoryResponse(cats, prods, id) ==
    [id |-> id, name |-> cats[id].name, parentId |-> cats[id].parentId,
     productsCount |-> productsCount(prods, id),
     childrenCount |-> childrenCount(cats, id)]

\* POST /categories: the checks before the insert (0: passed).
PostCategoryStatus(cats, body) ==
    IF ~NameGiven(body) THEN 400
    ELSE IF ParentOf(body) # NULL /\ ParentOf(body) \notin DOMAIN cats THEN 400
    ELSE 0

\* An insert that stores the name as submitted.
CategoryInsertedUntrimmed(cats, seq, body) ==
    cats @@ ((seq + 1) :> [name |-> body.name,
                           parentId |-> ParentOf(body),
                           createdAt |-> seq + 1])

\* prisma.category.create({ data: { name: name.trim(), parentId: parentId || null } })
CategoryInserted(cats, seq, body) ==
    cats @@ ((seq + 1) :> [name |-> trim(body.name),
                           parentId |-> ParentOf(body),
                           createdAt |-> seq + 1])

\* POST /categories: the insert, refused by the store when the parent is gone.
CategoryCreate(body) ==
    /\ catSeq < MaxCats
    /\ IF ParentFkHolds(categories, ParentOf(body))
       THEN /\ categories' = CategoryInserted(categories, catSeq, body)
            /\ catSeq' = catSeq + 1
            /\ Reply("POST /categories", 200)
       ELSE /\ UNCHANGED <<categories, catSeq>>
            /\ Reply("POST /categories", 500)

\* POST /categories, the whole handler.
PostCategory(body) ==
    /\ UNCHANGED <<products, prodSeq, pending>>
    /\ IF PostCategoryStatus(categories, body) # 0
       THEN /\ Reply("POST /categories", PostCategoryStatus(categories, body))
            /\ UNCHANGED <<categories, catSeq>>
       ELSE CategoryCreate(body)

\* POST /categories up to the end of its parent lookup; without a parent
\* identifier there is no lookup and the insert follows at once.
PostCategoryCheck(body) ==
    /\ UNCHANGED <<products, prodSeq>>
    /\ IF PostCategoryStatus(categories, body) # 0
       THEN /\ Reply("POST /categories", PostCategoryStatus(categories, body))
            /\ UNCHANGED <<categories, catSeq, pending>>
       ELSE IF ParentOf(body) # NULL
       THEN /\ pending' = pending (+) SetToBag({[op |-> "POST /categories", body |-> body]})
            /\ Reply("POST /categories", 0)
            /\ UNCHANGED <<categories, catSeq>>
       ELSE /\ CategoryCreate(body)
            /\ UNCHANGED pending

\* POST /categories after the parent was found: the insert.
PostCategoryWrite(r) ==
    /\ r.op = "POST /categories"
    /\ CategoryCreate(r.body)
    /\ pending' = pending (-) SetToBag({r})
    /\ UNCHANGED <<products, prodSeq>>

\* The edit form's parent select offers every category but the edited one:
\* categories.filter(cat => cat.id !== editingCategory.id)
EditFormOffers(id, body) == ParentOf(body) # id

\* Checks that do not look the category up.
PutCategoryStatusNoLookup(cats, id, body) ==
    IF ~NameGiven(body) THEN 400
    ELSE IF ParentOf(body) # NULL /\ ParentOf(body) \notin DOMAIN cats THEN 400
    ELSE 0

\* PUT /categories/{id}: the checks before the update (0: passed).
PutCategoryStatus(cats, id, body) ==
    IF ~NameGiven(body) THEN 400
    ELSE IF id \notin DOMAIN cats THEN 404
    ELSE IF ParentOf(body) # NULL /\ ParentOf(body) \notin DOMAIN cats THEN 400
    ELSE 0

\* The table after the update of row id.
CategoryUpdated(cats, id, body) ==
    [cats EXCEPT ![id] = [@ EXCEPT !.name = trim(body.name),
                                   !.parentId = ParentOf(body)]]

\* PUT /categories/{id}: the update, refused by the store when the row or its
\* new parent is gone.
CategoryUpdate(id, body) ==
    IF id \in DOMAIN categories /\ ParentFkHolds(categories, ParentOf(body))
    THEN /\ categories' = CategoryUpdated(categories, id, body)
         /\ Reply("PUT /categories", 200)
    ELSE /\ UNCHANGED categories
         /\ Reply("PUT /categories", 500)

\* PUT /categories/{id}, the whole handler.
PutCategory(id, body) ==
    /\ UNCHANGED <<products, catSeq, prodSeq, pending>>
    /\ IF PutCategoryStatus(categories, id, body) # 0
       THEN /\ Reply("PUT /categories", PutCategoryStatus(categories, id, body))
            /\ UNCHANGED categories
       ELSE CategoryUpdate(id, body)

\* PUT /categories/{id} up to the end of its lookups.
PutCategoryCheck(id, body) ==
    /\ UNCHANGED storeVars
    /\ Reply("PUT /categories", PutCategoryStatus(categories, id, body))
    /\ IF PutCategoryStatus(categories, id, body) # 0
       THEN UNCHANGED pending
       ELSE pending' = pending (+)
                SetToBag({[op |-> "PUT /categories", id |-> id, body |-> body]})

\* PUT /categories/{id} after its lookups: the update.
PutCategoryWrite(r) ==
    /\ r.op = "PUT /categories"
    /\ CategoryUpdate(r.id, r.body)
    /\ pending' = pending (-) SetToBag({r})
    /\ UNCHANGED <<products, catSeq, prodSeq>>

\* A precondition that counts the products only.
DeleteCategoryStatusProductsOnly(cats, prods, id) ==
    IF id \notin DOMAIN cats THEN 404
    ELSE IF productsCount(prods, id) > 0 THEN 400
    ELSE 0

\* A precondition that refuses every category.
DeleteCategoryStatusRefusing(cats, prods, id) ==
    IF id \notin DOMAIN cats THEN 404 ELSE 400

\* DELETE /categories/{id}: the precondition of the destructive call
\* (0: passed).
DeleteCategoryStatus(cats, prods, id) ==
    IF id \notin DOMAIN cats THEN 404
    ELSE IF productsCount(prods, id) > 0 \/ childrenCount(cats, id) > 0 THEN 400
    ELSE 0

\* DELETE /categories/{id}: the destructive call, refused by the store when
\* the row is gone or a product references it.
CategoryDelete(id) ==
    IF id \in DOMAIN categories /\ ~ProductFkRestricts(products, id)
    THEN /\ categories' = DeleteCategoryRow(categories, id)
         /\ Reply("DELETE /categories", 200)
    ELSE /\ UNCHANGED categories
         /\ Reply("DELETE /categories", 500)

\* DELETE /categories/{id}, the whole handler.
DeleteCategory(id) ==
    /\ UNCHANGED <<products, catSeq, prodSeq, pending>>
    /\ IF DeleteCategoryStatus(categories, products, id) # 0
       THEN /\ Reply("DELETE /categories", DeleteCategoryStatus(categories, products, id))
            /\ UNCHANGED categories
       ELSE CategoryDelete(id)

\* DELETE /categories/{id} up to the end of its count lookup.
DeleteCategoryCheck(id) ==
    /\ UNCHANGED storeVars
    /\ Reply("DELETE /categories", DeleteCategoryStatus(categories, products, id))
    /\ IF DeleteCategoryStatus(categories, products, id) # 0
       THEN UNCHANGED pending
       ELSE pending' = pending (+) SetToBag({[op |-> "DELETE /categories", id |-> id]})

\* DELETE /categories/{id} after its count lookup: the destructive call.
DeleteCategoryWrite(r) ==
    /\ r.op = "DELETE /categories"
    /\ CategoryDelete(r.id)
    /\ pending' = pending (-) SetToBag({r})
    /\ UNCHANGED <<products, catSeq, prodSeq>>

\* ---------------------------------------------------------------- products
\* !name?.trim() is false (product name)
ProductNameGiven(body) == "name" \in DOMAIN body /\ trim(body.name) # <<>>

\* !categoryId is false
CategoryGiven(body) == "categoryId" \in DOMAIN body /\ body.categoryId # NULL

\* variants = [] when the body has none
VariantsOf(body) == IF "variants" \in DOMAIN body THEN body.variants ELSE <<>>

ItemsOf(v, field) == IF field \in DOMAIN v THEN v[field] ELSE <<>>

\* Every image flagged as the main one.
ImageRowsAllMain(urls) == [i \in 1..Len(urls) |-> [imageUrl |-> urls[i], isMain |-> TRUE]]

\* isMain: index === 0
ImageRows(urls) == [i \in 1..Len(urls) |-> [imageUrl |-> urls[i], isMain |-> i = 1]]

\* NOT NULL columns of product_variants
VariantColumnsGiven(v) == {"size", "color", "quantity", "price"} \subseteq DOMAIN v

\* The rows POST /products writes for one submitted variant.
PostVariantRow(v) ==
    [size |-> v.size, color |-> v.color, quantity |-> v.quantity, price |-> v.price,
     attributes |-> ItemsOf(v, "attributes"),
     images |-> ImageRows(ItemsOf(v, "images"))]

\* !size?.trim() || !color?.trim() || !price || quantity < 0 is false
PutVariantValid(v) ==
    /\ VariantColumnsGiven(v)
    /\ trim(v.size) # <<>>
    /\ trim(v.color) # <<>>
    /\ v.price # 0
    /\ v.quantity >= 0

\* The rows PUT /products/{id} writes for one submitted variant.
PutVariantRow(v) ==
    [size |-> trim(v.size), color |-> trim(v.color), quantity |-> v.quantity,
     price |-> v.price,
     attributes |-> [i \in 1..Len(ItemsOf(v, "attributes")) |->
                        [name |-> trim(ItemsOf(v, "attributes")[i].name),
                         value |-> trim(ItemsOf(v, "attributes")[i].value)]],
     images |-> ImageRows([i \in 1..Len(ItemsOf(v, "images")) |->
                              trim(ItemsOf(v, "images")[i])])]

GoodVariant ==
    [size |-> <<"M">>, color |-> <<" ", "r">>, quantity |-> 1, price |-> 5,
     attributes |-> <<>>, images |-> <<<<"u">>>>]

PlainVariant ==
    [size |-> <<"S">>, color |-> <<"g">>, quantity |-> 0, price |-> 7,
     attributes |-> <<[name |-> <<"k">>, value |-> <<"v", " ">>]>>, images |-> <<>>]

Without(v, field) == [f \in DOMAIN v \ {field} |-> v[f]]

\* Variants that lack size, colour or price, or have a negative quantity.
BadVariants ==
    {Without(PlainVariant, "size"), Without(PlainVariant, "color"),
     Without(PlainVariant, "price"), [PlainVariant EXCEPT !.quantity = -1]}

\* Request bodies { name, categoryId, variants }: well-formed ones, and one
\* for each check of the handlers.
ProductBodies ==
    {[name |-> <<"p", " ">>, categoryId |-> k, variants |-> <<GoodVariant>>] :
        k \in {NULL} \cup CatIds}
        \cup {[name |-> <<" ">>, categoryId |-> 1, variants |-> <<GoodVariant>>],
              [categoryId |-> 1, variants |-> <<GoodVariant>>],
              [name |-> <<"p", " ">>, variants |-> <<GoodVariant>>],
              [name |-> <<"p", " ">>, categoryId |-> 1, variants |-> <<>>],
              [name |-> <<"p", " ">>, categoryId |-> 1]}
        \cup {[name |-> <<"p", " ">>, categoryId |-> 1, variants |-> <<GoodVariant, v>>] :
                v \in BadVariants}

\* Checks that let a body without variants pass.
PostProductStatusAnyVariants(cats, body) ==
    IF ~ProductNameGiven(body) THEN 400
    ELSE IF ~CategoryGiven(body) THEN 400
    ELSE IF body.categoryId \notin DOMAIN cats THEN 400
    ELSE 0

\* POST /products: the checks before the transaction (0: passed).
PostProductStatus(cats, body) ==
    IF ~ProductNameGiven(body) THEN 400
    ELSE IF ~CategoryGiven(body) THEN 400
    ELSE IF Len(VariantsOf(body)) = 0 THEN 400
    ELSE IF body.categoryId \notin DOMAIN cats THEN 400
    ELSE 0

\* for (const variant of variants): the variants from the k-th on are
\* inserted under product id; an insert that lacks a NOT NULL column throws.
RECURSIVE PostVariantsFrom(_, _, _, _)
PostVariantsFrom(prods, id, variants, k) ==
    IF k > Len(variants) THEN [ok |-> TRUE, store |-> prods]
    ELSE IF ~VariantColumnsGiven(variants[k]) THEN [ok |-> FALSE, store |-> prods]
    ELSE PostVariantsFrom(
            [prods EXCEPT ![id].variants = Append(@, PostVariantRow(variants[k]))],
            id, variants, k + 1)

\* The callback of POST /products' transaction: tx.product.create, then the
\* variants one by one; ok is FALSE when a step threw, store is what the steps
\* had written by then.
PostProductTx(prods, cats, seq, body) ==
    IF ~CategoryFkHolds(cats, body.categoryId) THEN [ok |-> FALSE, store |-> prods]
    ELSE PostVariantsFrom(
            prods @@ ((seq + 1) :> [name |-> trim(body.name),
                                    categoryId |-> body.categoryId,
                                    variants |-> <<>>]),
            seq + 1, VariantsOf(body), 1)

\* POST /products: the transaction and the response, or the catch.
ProductCreate(body) ==
    /\ prodSeq < MaxProds
    /\ LET tx == PostProductTx(products, categories, prodSeq, body)
       IN  /\ products' = Commit(tx, products)
           /\ prodSeq' = IF tx.ok THEN prodSeq + 1 ELSE prodSeq
           /\ Reply("POST /products", IF tx.ok THEN 200 ELSE 500)

\* POST /products, the whole handler.
PostProduct(body) ==
    /\ UNCHANGED <<categories, catSeq, pending>>
    /\ IF PostProductStatus(categories, body) # 0
       THEN /\ Reply("POST /products", PostProductStatus(categories, body))
            /\ UNCHANGED <<products, prodSeq>>
       ELSE ProductCreate(body)

\* POST /products up to the end of its category lookup.
PostProductCheck(body) ==
    /\ UNCHANGED storeVars
    /\ Reply("POST /products", PostProductStatus(categories, body))
    /\ IF PostProductStatus(categories, body) # 0
       THEN UNCHANGED pending
       ELSE pending' = pending (+) SetToBag({[op |-> "POST /products", body |-> body]})

\* POST /products after its category lookup: the transaction.
PostProductWrite(r) ==
    /\ r.op = "POST /products"
    /\ ProductCreate(r.body)
    /\ pending' = pending (-) SetToBag({r})
    /\ UNCHANGED <<categories, catSeq>>

\* PUT /products/{id}: the checks before the transaction (0: passed).
PutProductStatus(cats, prods, id, body) ==
    IF ~ProductNameGiven(body) THEN 400
    ELSE IF ~CategoryGiven(body) THEN 400
    ELSE IF Len(VariantsOf(body)) = 0 THEN 400
    ELSE IF id \notin DOMAIN prods THEN 404
    ELSE IF body.categoryId \notin DOMAIN cats THEN 400
    ELSE 0

\* productImage.deleteMany / productAttribute.deleteMany of product id
ClearVariantItems(prods, id, field) ==
    [prods EXCEPT ![id].variants =
        [i \in DOMAIN prods[id].variants |->
            [prods[id].variants[i] EXCEPT ![field] = <<>>]]]

\* for (const variant of variants): the variants from the k-th on are
\* validated and inserted under product id; an invalid one throws.
RECURSIVE PutVariantsFrom(_, _, _, _)
PutVariantsFrom(prods, id, variants, k) ==
    IF k > Len(variants) THEN [ok |-> TRUE, store |-> prods]
    ELSE IF ~PutVariantValid(variants[k]) THEN [ok |-> FALSE, store |-> prods]
    ELSE PutVariantsFrom(
            [prods EXCEPT ![id].variants = Append(@, PutVariantRow(variants[k]))],
            id, variants, k + 1)

\* A transaction that inserts the submitted variants next to the old ones.
PutProductTxKeepingOld(prods, cats, items, id, body) ==
    IF id \notin DOMAIN prods \/ ~CategoryFkHolds(cats, body.categoryId)
    THEN [ok |-> FALSE, store |-> prods]
    ELSE PutVariantsFrom([prods EXCEPT ![id].name = trim(body.name),
                                       ![id].categoryId = body.categoryId],
                         id, VariantsOf(body), 1)

\* The callback of PUT /products/{id}'s transaction: tx.product.update, the
\* old images, attributes and variants deleted, then the submitted variants
\* one by one.
PutProductTx(prods, cats, items, id, body) ==
    IF id \notin DOMAIN prods \/ ~CategoryFkHolds(cats, body.categoryId)
    THEN [ok |-> FALSE, store |-> prods]
    ELSE LET updated == [prods EXCEPT ![id].name = trim(body.name),
                                      ![id].categoryId = body.categoryId]
             bare == ClearVariantItems(ClearVariantItems(updated, id, "images"),
                                       id, "attributes")
         IN  IF VariantFkRestricts(items, id) \/ VariantItemsRestrict(bare, id)
             THEN [ok |-> FALSE, store |-> bare]
             ELSE PutVariantsFrom([bare EXCEPT ![id].variants = <<>>],
                                  id, VariantsOf(body), 1)

\* PUT /products/{id}: the transaction and the response, or the catch.
ProductUpdate(id, body) ==
    LET tx == PutProductTx(products, categories, orderItems, id, body)
    IN  /\ products' = Commit(tx, products)
        /\ Reply("PUT /products", IF tx.ok THEN 200 ELSE 500)

\* PUT /products/{id}, the whole handler.
PutProduct(id, body) ==
    /\ UNCHANGED <<categories, catSeq, prodSeq, pending>>
    /\ IF PutProductStatus(categories, products, id, body) # 0
       THEN /\ Reply("PUT /products", PutProductStatus(categories, products, id, body))
            /\ UNCHANGED products
       ELSE ProductUpdate(id, body)

\* PUT /products/{id} up to the end of its lookups.
PutProductCheck(id, body) ==
    /\ UNCHANGED storeVars
    /\ Reply("PUT /products", PutProductStatus(categories, products, id, body))
    /\ IF PutProductStatus(categories, products, id, body) # 0
       THEN UNCHANGED pending
       ELSE pending' = pending (+)
                SetToBag({[op |-> "PUT /products", id |-> id, body |-> body]})

\* PUT /products/{id} after its lookups: the transaction.
PutProductWrite(r) ==
    /\ r.op = "PUT /products"
    /\ ProductUpdate(r.id, r.body)
    /\ pending' = pending (-) SetToBag({r})
    /\ UNCHANGED <<categories, catSeq, prodSeq>>

\* quantities.reduce((sum, q) => sum + q, 0), from the k-th element on
RECURSIVE reduceSum(_, _, _)
reduceSum(q, k, sum) == IF k > Len(q) THEN sum ELSE reduceSum(q, k + 1, sum + q[k])

\* A minimum that looks at the first price only.
RECURSIVE MathMinOfFirst(_, _, _)
MathMinOfFirst(q, k, m) == q[1]

\* Math.min(...prices) of a non-empty list, from the k-th element on
RECURSIVE MathMin(_, _, _)
MathMin(q, k, m) ==
    IF k > Len(q) THEN m ELSE MathMin(q, k + 1, IF q[k] < m THEN q[k] ELSE m)

\* Math.max(...prices) of a non-empty list, from the k-th element on
RECURSIVE MathMax(_, _, _)
MathMax(q, k, m) ==
    IF k > Len(q) THEN m ELSE MathMax(q, k + 1, IF q[k] > m THEN q[k] ELSE m)

\* images.find(img => img.isMain): the places of the main-flagged images
MainPlaces(images) == {j \in DOMAIN images : images[j].isMain}

FirstOf(places) == CHOOSE j \in places : \A k \in places : j <= k

\* A loop that takes the first image of the first variant with images and
\* looks no further.
RECURSIVE MainImageFirstSeen(_, _, _)
MainImageFirstSeen(variants, k, mainImage) ==
    IF k > Len(variants) THEN mainImage
    ELSE IF variants[k].images # <<>> THEN <<variants[k].images[1].imageUrl>>
    ELSE MainImageFirstSeen(variants, k + 1, mainImage)

\* for (const variant of variants) { ... }: mainImage after the variants from
\* the k-th on; <<>> is null, <<url>> an image URL.
RECURSIVE MainImageFrom(_, _, _)
MainImageFrom(variants, k, mainImage) ==
    IF k > Len(variants) THEN mainImage
    ELSE IF MainPlaces(variants[k].images) # {}
    THEN <<variants[k].images[FirstOf(MainPlaces(variants[k].images))].imageUrl>>
    ELSE IF mainImage = <<>> /\ Len(variants[k].images) > 0
    THEN MainImageFrom(variants, k + 1, <<variants[k].images[1].imageUrl>>)
    ELSE MainImageFrom(variants, k + 1, mainImage)

\* The fields the handlers add to a product for the front end.
ProductResponse(product) ==
    LET prices == [i \in DOMAIN product.variants |-> product.variants[i].price]
        quantities == [i \in DOMAIN product.variants |-> product.variants[i].quantity]
    IN  [name |-> product.name,
         categoryId |-> product.categoryId,
         variantsCount |-> Len(product.variants),
         totalQuantity |-> reduceSum(quantities, 1, 0),
         minPrice |-> IF Len(prices) > 0 THEN MathMin(prices, 1, prices[1]) ELSE 0,
         maxPrice |-> IF Len(prices) > 0 THEN MathMax(prices, 1, prices[1]) ELSE 0,
         mainImage |-> MainImageFrom(product.variants, 1, <<>>),
         variants |-> Len(product.variants),
         images |-> reduceSum([i \in DOMAIN product.variants |->
                                  Len(product.variants[i].images)], 1, 0)]

\* findMany({ orderBy: { createdAt: 'desc' } }) of the products: the
\* identifiers, the product inserted last first.
ProductsNewestFirst(prods) ==
    [i \in 1..Cardinality(DOMAIN prods) |->
        CHOOSE id \in DOMAIN prods :
            Cardinality({d \in DOMAIN prods : d > id}) = i - 1]

\* GET /products: the response body.
GetProductsResponse(prods) ==
    [i \in 1..Cardinality(DOMAIN prods) |->
        ProductResponse(prods[ProductsNewestFirst(prods)[i]])]

\* GET /products, the whole handler.
GetProducts ==
    /\ Reply("GET /products", 200)
    /\ UNCHANGED <<storeVars, pending>>

\* POST /products: the response body for the created product id.
PostProductResponse(prods, id) == ProductResponse(prods[id])

\* PUT /products/{id}: the response body.
PutProductResponse(prods, id) == ProductResponse(prods[id])

\* DELETE /products/{id}: the check before the transaction (0: passed).
DeleteProductStatus(prods, id) == IF id \notin DOMAIN prods THEN 404 ELSE 0

\* A callback that deletes the product before its variants.
DeleteProductTxProductFirst(prods, items, id) ==
    IF id \notin DOMAIN prods \/ VariantsRestrict(prods, id)
    THEN [ok |-> FALSE, store |-> prods]
    ELSE [ok |-> TRUE, store |-> [p \in DOMAIN prods \ {id} |-> prods[p]]]

\* The callback of DELETE /products/{id}'s transaction: the images, the
\* attributes and the variants of the product deleted, then the product.
DeleteProductTx(prods, items, id) ==
    IF id \notin DOMAIN prods THEN [ok |-> FALSE, store |-> prods]
    ELSE LET bare == ClearVariantItems(ClearVariantItems(prods, id, "images"),
                                       id, "attributes")
             childless == [bare EXCEPT ![id].variants = <<>>]
         IN  IF VariantFkRestricts(items, id) \/ VariantItemsRestrict(bare, id)
             THEN [ok |-> FALSE, store |-> bare]
             ELSE IF VariantsRestrict(childless, id)
             THEN [ok |-> FALSE, store |-> childless]
             ELSE [ok |-> TRUE, store |-> [p \in DOMAIN prods \ {id} |-> prods[p]]]

\* DELETE /products/{id}: the transaction and the response, or the catch.
ProductDelete(id) ==
    LET tx == DeleteProductTx(products, orderItems, id)
    IN  /\ products' = Commit(tx, products)
        /\ Reply("DELETE /products", IF tx.ok THEN 200 ELSE 500)

\* DELETE /products/{id}, the whole handler.
DeleteProduct(id) ==
    /\ UNCHANGED <<categories, catSeq, prodSeq, pending>>
    /\ IF DeleteProductStatus(products, id) # 0
       THEN /\ Reply("DELETE /products", DeleteProductStatus(products, id))
            /\ UNCHANGED products
       ELSE ProductDelete(id)

\* A line item of an order is stored for the variant at place i of product p
\* (order_items_variant_id_fkey: the variant exists).
OrderItemInsert(p, i) ==
    /\ p \in DOMAIN products
    /\ i \in DOMAIN products[p].variants
    /\ orderItems' = orderItems \cup {<<p, i>>}
    /\ Reply("INSERT order_items", 200)
    /\ UNCHANGED <<storeVars, pending>>

\* ---------------------------------------------------------------- admin page
\* String.prototype.toLowerCase, one character
LowerOf(ch) == CASE ch = "A" -> "a" [] ch = "B" -> "b" [] OTHER -> ch

toLowerCase(s) == [i \in 1..Len(s) |-> LowerOf(s[i])]

\* String.prototype.includes
includes(s, t) == \E i \in 0..(Len(s) - Len(t)) : SubSeq(s, i + 1, i + Len(t)) = t

\* The predicate of categories.filter(...)
MatchesFilters(category, term, onlyParents) ==
    /\ includes(toLowerCase(category.name), toLowerCase(term))
    /\ (~onlyParents \/ category.parentId = NULL)

RECURSIVE filteredCategories(_, _, _)
filteredCategories(cats, term, onlyParents) ==
    IF cats = <<>> THEN <<>>
    ELSE IF MatchesFilters(Head(cats), term, onlyParents)
         THEN <<Head(cats)>> \o filteredCategories(Tail(cats), term, onlyParents)
         ELSE filteredCategories(Tail(cats), term, onlyParents)

\* cats.forEach(cat => map.set(cat.id, { ...cat, children: [] })): the node kept
\* under an identifier is the one set last.
MapOf(cats) ==
    [id \in {cats[i].id : i \in DOMAIN cats} |->
        cats[CHOOSE i \in DOMAIN cats :
                /\ cats[i].id = id
                /\ \A j \in DOMAIN cats : cats[j].id = id => j <= i]]

\* A round that also pushes a child to the root sequence.
PlaceNodeTwice(map, cat, acc) ==
    LET category == map[cat.id]
    IN  IF category.parentId # NULL /\ category.parentId \in DOMAIN map
        THEN [acc EXCEPT !.children[category.parentId] = Append(@, category.id),
                         !.tree = Append(@, category.id)]
        ELSE [acc EXCEPT !.tree = Append(@, category.id)]

\* A round that hides a node whose parent the map lacks.
PlaceNodeDropOrphan(map, cat, acc) ==
    LET category == map[cat.id]
    IN  IF category.parentId # NULL
        THEN IF category.parentId \in DOMAIN map
             THEN [acc EXCEPT !.children[category.parentId] = Append(@, category.id)]
             ELSE acc
        ELSE [acc EXCEPT !.tree = Append(@, category.id)]

\* A round that puts the node first (unshift) instead of last (push).
PlaceNodeUnshift(map, cat, acc) ==
    LET category == map[cat.id]
    IN  IF category.parentId # NULL /\ category.parentId \in DOMAIN map
        THEN [acc EXCEPT !.children[category.parentId] = <<category.id>> \o @]
        ELSE [acc EXCEPT !.tree = <<category.id>> \o @]

\* One round of the second forEach: the node of cat goes to its parent's
\* children when the map has the parent, to the root sequence otherwise.
PlaceNode(map, cat, acc) ==
    LET category == map[cat.id]
    IN  IF category.parentId # NULL /\ category.parentId \in DOMAIN map
        THEN [acc EXCEPT !.children[category.parentId] = Append(@, category.id)]
        ELSE [acc EXCEPT !.tree = Append(@, category.id)]

RECURSIVE PlaceFrom(_, _, _, _)
PlaceFrom(cats, map, i, acc) ==
    IF i > Len(cats) THEN acc
    ELSE PlaceFrom(cats, map, i + 1, PlaceNode(map, cats[i], acc))

\* The returned root sequence, and every node's children sequence; a node is
\* named by its identifier.
buildCategoryTree(cats) ==
    PlaceFrom(cats, MapOf(cats), 1,
              [tree |-> <<>>, children |-> [id \in DOMAIN MapOf(cats) |-> <<>>]])

\* const categoryTree = buildCategoryTree(filteredCategories), on every render
Render(cats, term, onlyParents) ==
    buildCategoryTree(filteredCategories(cats, term, onlyParents))

PageIdle ==
    /\ pageCategories = <<>>
    /\ searchTerm = <<>>
    /\ showOnlyParents = FALSE
    /\ categoryTree = Render(<<>>, <<>>, FALSE)

ApiIdle ==
    /\ categories = <<>>
    /\ products = <<>>
    /\ catSeq = 0
    /\ prodSeq = 0
    /\ pending = EmptyBag
    /\ last = Idle
    /\ orderItems = {}

\* The variant form as useState and the reset leave it.
EmptyVariant ==
    [id |-> NULL, size |-> <<>>, color |-> <<>>, quantity |-> 0, price |-> 0,
     attributes |-> <<>>, images |-> <<>>]

\* The add-product form as useState and the reset on opening leave it.
FormIdle ==
    /\ formData = [name |-> <<>>, categoryId |-> NULL, variants |-> <<>>]
    /\ currentVariant = EmptyVariant
    /\ showVariantForm = FALSE
    /\ editingVariantIndex = NULL
    /\ variantClock = 0

\* Seconds a code lives: useState(300), setTimeLeft(300)
CodeLifetime == 300
\* The resend button is disabled while timeLeft > 240
ResendAllowedAt == 240
\* Digit fields of the code
CodeLength == 6

EmptyCode == [i \in 1..CodeLength |-> <<>>]

\* The verify page as useState leaves it, opened with a token.
VerifyIdle ==
    /\ code = EmptyCode
    /\ error = FALSE
    /\ isLoading = FALSE
    /\ timeLeft = CodeLifetime
    /\ route = "/admin/verify"
    /\ requests = EmptyBag
    /\ timers = EmptyBag
    /\ resends = 0

\* onChange of the search box
setSearchTerm(term) ==
    /\ searchTerm' = term
    /\ categoryTree' = Render(pageCategories, term, showOnlyParents)
    /\ UNCHANGED <<pageCategories, showOnlyParents>>

\* onChange of the "only parents" checkbox
setShowOnlyParents(checked) ==
    /\ showOnlyParents' = checked
    /\ categoryTree' = Render(pageCategories, searchTerm, checked)
    /\ UNCHANGED <<pageCategories, searchTerm>>

\* A fetch that appends the response to the list it holds.
fetchCategoriesAppending ==
    /\ pageCategories' = pageCategories \o GetCategories(categories, products)
    /\ categoryTree' = Render(pageCategories', searchTerm, showOnlyParents)
    /\ Reply("GET /categories", 200)
    /\ UNCHANGED <<storeVars, pending, orderItems, searchTerm, showOnlyParents,
                   formVars, verifyVars>>

\* fetchCategories: GET /categories, then setCategories(data)
fetchCategories ==
    /\ pageCategories' = GetCategories(categories, products)
    /\ categoryTree' = Render(pageCategories', searchTerm, showOnlyParents)
    /\ Reply("GET /categories", 200)
    /\ UNCHANGED <<storeVars, pending, orderItems, searchTerm, showOnlyParents,
                   formVars, verifyVars>>

PageNames == {<<"A">>, <<"a", "B">>}

SearchTerms == {<<>>, <<"b">>}

RECURSIVE Orders(_)
Orders(ids) ==
    IF ids = {} THEN {<<>>}
    ELSE UNION {{<<i>> \o o : o \in Orders(ids \ {i})} : i \in ids}

\* What GET /categories can return for the rows 1..n: the rows in the order
\* o, each parent reference null or another of the rows.
PageList(n, o, nm, par) ==
    [i \in 1..n |-> [id |-> o[i], name |-> nm[o[i]], parentId |-> par[o[i]]]]

\* The page once the categories are fetched, and the filters then set.
InitTree ==
    /\ ApiIdle
    /\ \E n \in 0..MaxTreeCats :
         \E o \in Orders(1..n), nm \in [1..n -> PageNames],
            par \in [1..n -> {NULL} \cup 1..n] :
                /\ \A i \in 1..n : par[i] # i
                /\ pageCategories = PageList(n, o, nm, par)
    /\ searchTerm = <<>>
    /\ showOnlyParents = FALSE
    /\ categoryTree = Render(pageCategories, searchTerm, showOnlyParents)
    /\ FormIdle
    /\ VerifyIdle

NextTree ==
    \/ \E term \in SearchTerms : setSearchTerm(term) /\ UNCHANGED <<apiVars, formVars, verifyVars>>
    \/ \E checked \in BOOLEAN : setShowOnlyParents(checked) /\ UNCHANGED <<apiVars, formVars, verifyVars>>

SpecTree == InitTree /\ [][NextTree]_vars

\* ---------------------------------------------------------------- system
Init == ApiIdle /\ PageIdle /\ FormIdle /\ VerifyIdle

\* Category requests handled concurrently, every body well-formed: the
\* races on the categories table.
RaceCategoryBodies ==
    {[name |-> <<" ", "a", " ">>, parentId |-> p] : p \in {NULL} \cup CatIds}
        \cup {[name |-> <<"b">>]}

Next ==
    \/ \E body \in RaceCategoryBodies :
        /\ BagCardinality(pending) < Concurrency
        /\ PostCategoryCheck(body)
        /\ UNCHANGED <<uiVars, orderItems>>
    \/ \E r \in BagToSet(pending) : PostCategoryWrite(r) /\ UNCHANGED <<uiVars, orderItems>>
    \/ \E id \in CatIds, body \in RaceCategoryBodies :
        /\ BagCardinality(pending) < Concurrency
        /\ EditFormOffers(id, body)
        /\ PutCategoryCheck(id, body)
        /\ UNCHANGED <<uiVars, orderItems>>
    \/ \E r \in BagToSet(pending) : PutCategoryWrite(r) /\ UNCHANGED <<uiVars, orderItems>>
    \/ \E id \in CatIds :
        /\ BagCardinality(pending) < Concurrency
        /\ DeleteCategoryCheck(id)
        /\ UNCHANGED <<uiVars, orderItems>>
    \/ \E r \in BagToSet(pending) : DeleteCategoryWrite(r) /\ UNCHANGED <<uiVars, orderItems>>

Spec == Init /\ [][Next]_vars

\* Category creation and deletion and product requests handled concurrently,
\* every body well-formed: the races between the categories and the products
\* tables.
RootCategoryBody == [name |-> <<"b">>]

RaceProductBodies ==
    {[name |-> <<"p", " ">>, categoryId |-> k, variants |-> <<GoodVariant>>] :
        k \in CatIds}

NextShop ==
    \/ PostCategory(RootCategoryBody) /\ UNCHANGED <<uiVars, orderItems>>
    \/ \E id \in CatIds :
        /\ BagCardinality(pending) < Concurrency
        /\ DeleteCategoryCheck(id)
        /\ UNCHANGED <<uiVars, orderItems>>
    \/ \E r \in BagToSet(pending) : DeleteCategoryWrite(r) /\ UNCHANGED <<uiVars, orderItems>>
    \/ \E body \in RaceProductBodies :
        /\ BagCardinality(pending) < Concurrency
        /\ PostProductCheck(body)
        /\ UNCHANGED <<uiVars, orderItems>>
    \/ \E r \in BagToSet(pending) : PostProductWrite(r) /\ UNCHANGED <<uiVars, orderItems>>
    \/ \E id \in ProdIds, body \in RaceProductBodies :
        /\ BagCardinality(pending) < Concurrency
        /\ PutProductCheck(id, body)
        /\ UNCHANGED <<uiVars, orderItems>>
    \/ \E r \in BagToSet(pending) : PutProductWrite(r) /\ UNCHANGED <<uiVars, orderItems>>

SpecShop == Init /\ [][NextShop]_vars

\* The listing: a store of up to MaxGetCats categories and one product, as
\* earlier requests left it, read by the page while categories are created
\* and deleted.
GetCatIds == 1..MaxGetCats

StoredCategories(n, par) ==
    [i \in 1..n |-> [name |-> <<"a">>, parentId |-> par[i], createdAt |-> i]]

StoredProducts(cats, k) ==
    IF k = NULL THEN <<>>
    ELSE PostProductTx(<<>>, cats, 0,
            [name |-> <<"p">>, categoryId |-> k, variants |-> <<GoodVariant>>]).store

InitGet ==
    /\ \E n \in 0..MaxGetCats :
         \E par \in [1..n -> {NULL} \cup 1..n], k \in {NULL} \cup 1..n :
            /\ \A i \in 1..n : par[i] # i
            /\ categories = StoredCategories(n, par)
            /\ products = StoredProducts(categories, k)
            /\ catSeq = n
    /\ prodSeq = Cardinality(DOMAIN products)
    /\ pending = EmptyBag
    /\ last = Idle
    /\ orderItems = {}
    /\ PageIdle
    /\ FormIdle
    /\ VerifyIdle

NextGet ==
    \/ fetchCategories
    \/ \E body \in RaceCategoryBodies :
        PostCategory(body) /\ UNCHANGED <<uiVars, orderItems>>
    \/ \E id \in GetCatIds :
        /\ BagCardinality(pending) < Concurrency
        /\ DeleteCategoryCheck(id)
        /\ UNCHANGED <<uiVars, orderItems>>
    \/ \E r \in BagToSet(pending) : DeleteCategoryWrite(r) /\ UNCHANGED <<uiVars, orderItems>>

SpecGet == InitGet /\ [][NextGet]_vars

\* Products created, rewritten and deleted while orders are placed for their
\* variants, one request at a time.
GalleryVariant ==
    [size |-> <<"L">>, color |-> <<"g">>, quantity |-> 3, price |-> 9,
     attributes |-> <<[name |-> <<"k">>, value |-> <<"v">>]>>,
     images |-> <<<<"a">>, <<"b", " ">>>>]

OrderProductBodies ==
    RaceProductBodies
        \cup {[name |-> <<"p">>, categoryId |-> 1, variants |-> <<GoodVariant, PlainVariant>>],
              [name |-> <<"p">>, categoryId |-> 1, variants |-> <<GalleryVariant>>]}

NextOrders ==
    \/ PostCategory(RootCategoryBody) /\ UNCHANGED <<uiVars, orderItems>>
    \/ \E body \in OrderProductBodies :
        PostProduct(body) /\ UNCHANGED <<uiVars, orderItems>>
    \/ \E id \in ProdIds, body \in OrderProductBodies :
        PutProduct(id, body) /\ UNCHANGED <<uiVars, orderItems>>
    \/ \E id \in ProdIds : DeleteProduct(id) /\ UNCHANGED <<uiVars, orderItems>>
    \/ \E p \in ProdIds, i \in 1..2 : OrderItemInsert(p, i) /\ UNCHANGED uiVars

SpecOrders == Init /\ [][NextOrders]_vars

\* The catalogue: up to MaxListProds products under one category, their rows
\* as the schema admits them, listed and deleted one request at a time.
ListProdIds == 1..MaxListProds

ImageRow(url, main) == [imageUrl |-> <<url>>, isMain |-> main]

\* Rows of product_variants with their images and attributes.
StoredVariants ==
    {[size |-> <<"M">>, color |-> <<"r">>, quantity |-> 1, price |-> 5,
      attributes |-> <<>>, images |-> <<ImageRow("u", TRUE)>>],
     [size |-> <<"S">>, color |-> <<"g">>, quantity |-> 2, price |-> 7,
      attributes |-> <<[name |-> <<"k">>, value |-> <<"v">>]>>, images |-> <<>>],
     [size |-> <<"L">>, color |-> <<"g">>, quantity |-> 0, price |-> 3,
      attributes |-> <<>>, images |-> <<ImageRow("a", FALSE), ImageRow("b", TRUE)>>],
     [size |-> <<"L">>, color |-> <<"r">>, quantity |-> 4, price |-> 7,
      attributes |-> <<>>, images |-> <<ImageRow("c", FALSE)>>]}

StoredVariantLists ==
    {<<>>} \cup {<<v>> : v \in StoredVariants}
           \cup {<<v, w>> : v \in StoredVariants, w \in StoredVariants}

InitCatalog ==
    /\ categories = StoredCategories(1, <<NULL>>)
    /\ catSeq = 1
    /\ \E n \in 0..MaxListProds :
         \E vs \in [1..n -> StoredVariantLists] :
            products = [p \in 1..n |->
                            [name |-> <<"p">>, categoryId |-> 1, variants |-> vs[p]]]
    /\ prodSeq = Cardinality(DOMAIN products)
    /\ pending = EmptyBag
    /\ last = Idle
    /\ orderItems = {}
    /\ PageIdle
    /\ FormIdle
    /\ VerifyIdle

NextCatalog ==
    \/ \E id \in ListProdIds : DeleteProduct(id) /\ UNCHANGED <<uiVars, orderItems>>
    \/ GetProducts /\ UNCHANGED <<uiVars, orderItems>>
    \/ \E body \in RaceProductBodies :
        PostProduct(body) /\ UNCHANGED <<uiVars, orderItems>>
    \/ \E id \in ListProdIds, body \in RaceProductBodies :
        PutProduct(id, body) /\ UNCHANGED <<uiVars, orderItems>>

SpecCatalog == InitCatalog /\ [][NextCatalog]_vars

\* ------------------------------------------------------- add-product form
\* What the administrator types into the fields of the form.
FormNames == {<<"p">>}

FormSizes == {<<>>, <<"M">>}

FormColors == {<<>>, <<"r">>}

FormPrices == {0, 5, 7}

\* setFormData({ ...formData, name }) and setFormData({ ...formData, categoryId })
setFormName(name) ==
    /\ formData' = [formData EXCEPT !.name = name]
    /\ UNCHANGED <<currentVariant, showVariantForm, editingVariantIndex, variantClock>>

setFormCategoryId(id) ==
    /\ id \in DOMAIN categories
    /\ formData' = [formData EXCEPT !.categoryId = id]
    /\ UNCHANGED <<currentVariant, showVariantForm, editingVariantIndex, variantClock>>

\* The "add variant" button: setShowVariantForm(true)
openVariantForm ==
    /\ showVariantForm' = TRUE
    /\ UNCHANGED <<formData, currentVariant, editingVariantIndex, variantClock>>

\* The fields of the variant form, shown while showVariantForm holds.
setCurrentVariantSize(size) ==
    /\ showVariantForm
    /\ currentVariant' = [currentVariant EXCEPT !.size = size]
    /\ UNCHANGED <<formData, showVariantForm, editingVariantIndex, variantClock>>

setCurrentVariantColor(color) ==
    /\ showVariantForm
    /\ currentVariant' = [currentVariant EXCEPT !.color = color]
    /\ UNCHANGED <<formData, showVariantForm, editingVariantIndex, variantClock>>

setCurrentVariantPrice(price) ==
    /\ showVariantForm
    /\ currentVariant' = [currentVariant EXCEPT !.price = price]
    /\ UNCHANGED <<formData, showVariantForm, editingVariantIndex, variantClock>>

\* The reset at the end of handleVariantSave and in both cancel buttons.
VariantFormReset ==
    /\ currentVariant' = EmptyVariant
    /\ showVariantForm' = FALSE
    /\ editingVariantIndex' = NULL

\* handleVariantSave: refused while size, colour or price is missing; an
\* edit replaces the variant at editingVariantIndex and keeps the id found
\* there (reading the id of a variant that is not there throws), a new
\* variant is appended with Date.now() as its id.
handleVariantSave ==
    /\ showVariantForm
    /\ IF currentVariant.size = <<>> \/ currentVariant.color = <<>>
            \/ currentVariant.price <= 0
       THEN UNCHANGED formVars
       ELSE IF editingVariantIndex # NULL
       THEN IF editingVariantIndex \notin DOMAIN formData.variants
            THEN UNCHANGED formVars
            ELSE /\ formData' =
                        [formData EXCEPT !.variants[editingVariantIndex] =
                            [currentVariant EXCEPT
                                !.id = formData.variants[editingVariantIndex].id]]
                 /\ VariantFormReset
                 /\ UNCHANGED variantClock
       ELSE /\ variantClock < MaxFormVariants
            /\ variantClock' = variantClock + 1
            /\ formData' =
                    [formData EXCEPT !.variants =
                        Append(@, [currentVariant EXCEPT !.id = variantClock + 1])]
            /\ VariantFormReset

\* handleVariantEdit(index), the edit button of a listed variant
handleVariantEdit(index) ==
    /\ index \in DOMAIN formData.variants
    /\ currentVariant' = formData.variants[index]
    /\ editingVariantIndex' = index
    /\ showVariantForm' = TRUE
    /\ UNCHANGED <<formData, variantClock>>

\* variants.filter((_, i) => i !== index)
FilterOut(variants, index) ==
    [i \in 1..(Len(variants) - 1) |-> IF i < index THEN variants[i] ELSE variants[i + 1]]

\* handleVariantDelete(index), the delete button of a listed variant
handleVariantDelete(index) ==
    /\ index \in DOMAIN formData.variants
    /\ formData' = [formData EXCEPT !.variants = FilterOut(@, index)]
    /\ UNCHANGED <<currentVariant, showVariantForm, editingVariantIndex, variantClock>>

\* The two cancel buttons of the variant form.
cancelVariantForm ==
    /\ showVariantForm
    /\ VariantFormReset
    /\ UNCHANGED <<formData, variantClock>>

\* The modal is closed and opened again: the effect on isOpen resets it.
FormReset ==
    /\ formData' = [name |-> <<>>, categoryId |-> NULL, variants |-> <<>>]
    /\ VariantFormReset
    /\ UNCHANGED variantClock

\* The cancel button of the footer: onClose
onClose ==
    /\ FormReset
    /\ UNCHANGED <<apiVars, pageVars, verifyVars>>

\* handleCreateProduct(data): POST /api/admin/products with the form's data
handleCreateProduct(data) ==
    PostProduct([name |-> data.name, categoryId |-> data.categoryId,
                 variants |-> data.variants])

\* handleSubmit: an error is shown and nothing is sent without a name, a
\* category or a variant; otherwise onSubmit(formData), then onClose().
handleSubmit ==
    IF trim(formData.name) = <<>> \/ formData.categoryId = NULL
    THEN UNCHANGED vars
    ELSE IF Len(formData.variants) = 0
    THEN UNCHANGED vars
    ELSE /\ handleCreateProduct(formData)
         /\ FormReset
         /\ UNCHANGED <<orderItems, pageVars, verifyVars>>

\* Requests without variants, sent to the handlers directly.
EmptyVariantsBodies ==
    {[name |-> <<"p">>, categoryId |-> 1, variants |-> <<>>],
     [name |-> <<"p">>, categoryId |-> 1]}

\* The add-product form of the dashboard over a store with one category,
\* next to product requests sent directly.
InitForm ==
    /\ categories = StoredCategories(1, <<NULL>>)
    /\ catSeq = 1
    /\ products = <<>>
    /\ prodSeq = 0
    /\ pending = EmptyBag
    /\ last = Idle
    /\ orderItems = {}
    /\ PageIdle
    /\ FormIdle
    /\ VerifyIdle

NextForm ==
    \/ \E name \in FormNames :
        setFormName(name) /\ UNCHANGED <<apiVars, pageVars, verifyVars>>
    \/ \E id \in CatIds :
        setFormCategoryId(id) /\ UNCHANGED <<apiVars, pageVars, verifyVars>>
    \/ openVariantForm /\ UNCHANGED <<apiVars, pageVars, verifyVars>>
    \/ \E size \in FormSizes :
        setCurrentVariantSize(size) /\ UNCHANGED <<apiVars, pageVars, verifyVars>>
    \/ \E color \in FormColors :
        setCurrentVariantColor(color) /\ UNCHANGED <<apiVars, pageVars, verifyVars>>
    \/ \E price \in FormPrices :
        setCurrentVariantPrice(price) /\ UNCHANGED <<apiVars, pageVars, verifyVars>>
    \/ handleVariantSave /\ UNCHANGED <<apiVars, pageVars, verifyVars>>
    \/ \E index \in 1..MaxFormVariants :
        handleVariantEdit(index) /\ UNCHANGED <<apiVars, pageVars, verifyVars>>
    \/ \E index \in 1..MaxFormVariants :
        handleVariantDelete(index) /\ UNCHANGED <<apiVars, pageVars, verifyVars>>
    \/ cancelVariantForm /\ UNCHANGED <<apiVars, pageVars, verifyVars>>
    \/ onClose
    \/ handleSubmit
    \/ \E body \in EmptyVariantsBodies :
        PostProduct(body) /\ UNCHANGED <<uiVars, orderItems>>
    \/ \E id \in ProdIds, body \in EmptyVariantsBodies :
        PutProduct(id, body) /\ UNCHANGED <<uiVars, orderItems>>
    \/ \E id \in ProdIds : DeleteProduct(id) /\ UNCHANGED <<uiVars, orderItems>>

SpecForm == InitForm /\ [][NextForm]_vars

\* ------------------------------------------------------------ verify page
\* The countdown started by the effect, and the callbacks handed to
\* setTimeout.
Interval == [kind |-> "interval"]

SubmitTimer(c) == [kind |-> "submit", code |-> c, ticks |-> 0]

RedirectTimer == [kind |-> "redirect", ticks |-> 0]

\* A callback scheduled 100 ms ahead sees at most one tick of the one-second
\* interval before it runs.
Age(t) == IF t = Interval THEN t ELSE [t EXCEPT !.ticks = 1]

Due(t) == t # Interval /\ t.ticks = 1

AgedTimers ==
    [u \in {Age(t) : t \in BagToSet(timers)} |->
        timers[CHOOSE t \in BagToSet(timers) : Age(t) = u]]

\* Callbacks scheduled and requests sent that have not come back yet.
InFlight == BagCardinality(timers (-) SetToBag({Interval})) + BagCardinality(requests)

VerifyRequest(c) == [kind |-> "verify-code", code |-> c]

ResendRequest == [kind |-> "request-code"]

\* The page mounted with a token: the state of useState and the interval.
VerifyMounted ==
    /\ code = EmptyCode
    /\ error = FALSE
    /\ isLoading = FALSE
    /\ timeLeft = CodeLifetime
    /\ route = "/admin/verify"
    /\ requests = EmptyBag
    /\ timers = SetToBag({Interval})
    /\ resends = 0

IsDigit(c) == c \in {"0", "1", "2", "3", "4", "5", "6", "7", "8", "9"}

\* text.replace(/\D/g, '').slice(0, 6)
DigitsOf(text) ==
    LET digits == SelectSeq(text, IsDigit)
    IN  SubSeq(digits, 1, IF Len(digits) < CodeLength THEN Len(digits) ELSE CodeLength)

\* newCode[i] = digits[i] || ''
FilledWith(digits) ==
    [i \in 1..CodeLength |-> IF i <= Len(digits) THEN <<digits[i]>> ELSE <<>>]

\* code.join('')
RECURSIVE JoinFrom(_, _)
JoinFrom(fields, k) ==
    IF k > CodeLength THEN <<>> ELSE fields[k] \o JoinFrom(fields, k + 1)

join(fields) == JoinFrom(fields, 1)

\* verificationCode || code.join(''): <<>> stands for undefined and for ''
CodeToSubmit(verificationCode) ==
    IF verificationCode = <<>> THEN join(code) ELSE verificationCode

\* A guard that lets every code with at least one character through.
SubmitCodeOfAnyLength(codeToSubmit) ==
    IF Len(codeToSubmit) = 0
    THEN /\ error' = TRUE
         /\ UNCHANGED <<isLoading, requests>>
    ELSE /\ error' = FALSE
         /\ isLoading' = TRUE
         /\ requests' = requests (+) SetToBag({VerifyRequest(codeToSubmit)})

\* handleSubmit up to its fetch: the length check, then the request is sent.
SubmitCode(codeToSubmit) ==
    IF Len(codeToSubmit) # CodeLength
    THEN /\ error' = TRUE
         /\ UNCHANGED <<isLoading, requests>>
    ELSE /\ error' = FALSE
         /\ isLoading' = TRUE
         /\ requests' = requests (+) SetToBag({VerifyRequest(codeToSubmit)})

handleSubmitCode(verificationCode) ==
    /\ route = "/admin/verify"
    /\ SubmitCode(CodeToSubmit(verificationCode))
    /\ UNCHANGED <<code, timeLeft, route, timers, resends>>

\* handleCodeChange(index, value): a long value fills the fields with its
\* digits and, with six of them, schedules handleSubmit; a single character
\* is put into its field, and handleSubmit is called once no field is empty.
handleCodeChange(index, value) ==
    /\ route = "/admin/verify"
    /\ ~isLoading
    /\ IF Len(value) > 1
       THEN /\ code' = FilledWith(DigitsOf(value))
            /\ IF Len(DigitsOf(value)) >= CodeLength
               THEN /\ InFlight < MaxInFlight
                    /\ timers' = timers (+)
                            SetToBag({SubmitTimer(join(FilledWith(DigitsOf(value))))})
               ELSE UNCHANGED timers
            /\ UNCHANGED <<error, isLoading, timeLeft, route, requests, resends>>
       ELSE LET newCode == [code EXCEPT ![index] = value]
            IN  /\ code' = newCode
                /\ IF (\A i \in 1..CodeLength : newCode[i] # <<>>)
                        /\ Len(join(newCode)) = CodeLength
                   THEN InFlight < MaxInFlight /\ SubmitCode(join(newCode))
                   ELSE UNCHANGED <<error, isLoading, requests>>
                /\ UNCHANGED <<timeLeft, route, timers, resends>>

\* handlePaste: the digits of the clipboard fill the fields; six of them
\* schedule handleSubmit.
handlePaste(pastedData) ==
    /\ route = "/admin/verify"
    /\ ~isLoading
    /\ IF Len(DigitsOf(pastedData)) > 0
       THEN /\ code' = FilledWith(DigitsOf(pastedData))
            /\ IF Len(DigitsOf(pastedData)) >= CodeLength
               THEN /\ InFlight < MaxInFlight
                    /\ timers' = timers (+)
                            SetToBag({SubmitTimer(join(FilledWith(DigitsOf(pastedData))))})
               ELSE UNCHANGED timers
       ELSE UNCHANGED <<code, timers>>
    /\ UNCHANGED <<error, isLoading, timeLeft, route, requests, resends>>

\* The callback of setTimeout(() => handleSubmit(newCode.join('')), 100)
submitTimerFires(t) ==
    /\ t \in BagToSet(timers)
    /\ t.kind = "submit"
    /\ route = "/admin/verify"
    /\ SubmitCode(CodeToSubmit(t.code))
    /\ timers' = timers (-) SetToBag({t})
    /\ UNCHANGED <<code, timeLeft, route, resends>>

\* The confirm button, disabled while loading or while a field is empty.
confirmClick ==
    /\ ~isLoading
    /\ \A i \in 1..CodeLength : code[i] # <<>>
    /\ InFlight < MaxInFlight
    /\ handleSubmitCode(<<>>)

\* The page is left: the effect's cleanup clears the interval, and what is
\* still scheduled or in flight no longer reaches the page.
Leave(to) ==
    /\ route' = to
    /\ timers' = EmptyBag
    /\ requests' = EmptyBag

\* handleSubmit after its fetch: the answer is a success, a rejected code
\* (success: false) or a failure (status not ok, or no answer).
VerifyOutcomes == {"success", "rejected", "failed"}

verifyResponse(r, outcome) ==
    /\ route = "/admin/verify"
    /\ r \in BagToSet(requests)
    /\ r.kind = "verify-code"
    /\ requests' = requests (-) SetToBag({r})
    /\ isLoading' = FALSE
    /\ IF outcome = "success"
       THEN /\ timers' = timers (+) SetToBag({RedirectTimer})
            /\ UNCHANGED <<code, error>>
       ELSE /\ error' = TRUE
            /\ code' = EmptyCode
            /\ UNCHANGED timers
    /\ UNCHANGED <<timeLeft, route, resends>>

\* The callback of setTimeout(() => window.location.replace(...), 100)
redirectTimerFires ==
    /\ route = "/admin/verify"
    /\ \E t \in BagToSet(timers) : t.kind = "redirect"
    /\ Leave("/admin/dashboard")
    /\ UNCHANGED <<code, error, isLoading, timeLeft, resends>>

\* disabled={isLoading || timeLeft > 240} of the resend button
ResendEnabled == ~(isLoading \/ timeLeft > ResendAllowedAt)

\* handleResendCode up to its fetch, from the resend button.
handleResendCode ==
    /\ route = "/admin/verify"
    /\ ResendEnabled
    /\ resends < MaxResends
    /\ InFlight < MaxInFlight
    /\ resends' = resends + 1
    /\ error' = FALSE
    /\ isLoading' = TRUE
    /\ requests' = requests (+) SetToBag({ResendRequest})
    /\ UNCHANGED <<code, timeLeft, route, timers>>

\* handleResendCode after its fetch.
resendResponse(r, ok) ==
    /\ route = "/admin/verify"
    /\ r \in BagToSet(requests)
    /\ r.kind = "request-code"
    /\ requests' = requests (-) SetToBag({r})
    /\ isLoading' = FALSE
    /\ IF ok
       THEN /\ timeLeft' = CodeLifetime
            /\ code' = EmptyCode
            /\ UNCHANGED error
       ELSE /\ error' = TRUE
            /\ UNCHANGED <<timeLeft, code>>
    /\ UNCHANGED <<route, timers, resends>>

\* The countdown that never leaves the page.
TickForever ==
    /\ Interval \in BagToSet(timers)
    /\ \A t \in BagToSet(timers) : ~Due(t)
    /\ timeLeft' = IF timeLeft <= 1 THEN 0 ELSE timeLeft - 1
    /\ timers' = AgedTimers
    /\ UNCHANGED <<route, requests>>
    /\ UNCHANGED <<code, error, isLoading, resends>>

\* The interval's callback: at prev <= 1 the interval is cleared and the
\* router pushes /admin/login, otherwise one second less is left.
Tick ==
    /\ Interval \in BagToSet(timers)
    /\ \A t \in BagToSet(timers) : ~Due(t)
    /\ IF timeLeft <= 1
       THEN /\ timeLeft' = 0
            /\ Leave("/admin/login")
       ELSE /\ timeLeft' = timeLeft - 1
            /\ timers' = AgedTimers
            /\ UNCHANGED <<route, requests>>
    /\ UNCHANGED <<code, error, isLoading, resends>>

\* The "back to login" link.
backToLogin ==
    /\ route = "/admin/verify"
    /\ Leave("/admin/login")
    /\ UNCHANGED <<code, error, isLoading, timeLeft, resends>>

\* What is typed into one field (after replace(/\D/g, '')), and what is
\* pasted or arrives in a field as a longer string.
TypedValues == {<<>>, <<"7">>}

TypedFields == {1, CodeLength}

PastedTexts ==
    {<<"7", "7", "7", "7", "7", "7">>,
     <<"7", "7", "-", "7", "7", " ", "7", "7", "7">>,
     <<"7", "7", "7", "7", "7">>,
     <<"a", "b">>}

\* handleSubmit called with any argument in any state of the page: what
\* the handler does for its callers, the page's own among them.
SubmitArguments == {<<>>, <<"7", "7", "7">>} \cup {DigitsOf(t) : t \in PastedTexts}

InitVerify == ApiIdle /\ PageIdle /\ FormIdle /\ VerifyMounted

NextVerify ==
    \/ \E index \in TypedFields, value \in TypedValues \cup PastedTexts :
        handleCodeChange(index, value) /\ UNCHANGED <<apiVars, pageVars, formVars>>
    \/ \E pastedData \in PastedTexts :
        handlePaste(pastedData) /\ UNCHANGED <<apiVars, pageVars, formVars>>
    \/ \E t \in BagToSet(timers) :
        submitTimerFires(t) /\ UNCHANGED <<apiVars, pageVars, formVars>>
    \/ confirmClick /\ UNCHANGED <<apiVars, pageVars, formVars>>
    \/ \E r \in BagToSet(requests), outcome \in VerifyOutcomes :
        verifyResponse(r, outcome) /\ UNCHANGED <<apiVars, pageVars, formVars>>
    \/ redirectTimerFires /\ UNCHANGED <<apiVars, pageVars, formVars>>
    \/ handleResendCode /\ UNCHANGED <<apiVars, pageVars, formVars>>
    \/ \E r \in BagToSet(requests), ok \in BOOLEAN :
        resendResponse(r, ok) /\ UNCHANGED <<apiVars, pageVars, formVars>>
    \/ Tick /\ UNCHANGED <<apiVars, pageVars, formVars>>
    \/ backToLogin /\ UNCHANGED <<apiVars, pageVars, formVars>>

SpecVerify == InitVerify /\ [][NextVerify]_vars

\* The interval keeps calling back, and a callback that is due runs.
TickStep == Tick /\ UNCHANGED <<apiVars, pageVars, formVars>>

TimerStep ==
    /\ \E t \in BagToSet(timers) :
        /\ Due(t)
        /\ submitTimerFires(t) \/ (t.kind = "redirect" /\ redirectTimerFires)
    /\ UNCHANGED <<apiVars, pageVars, formVars>>

SpecVerifyLive ==
    InitVerify /\ [][NextVerify]_vars /\ WF_vars(TickStep) /\ WF_vars(TimerStep)

NextVerifyCalls ==
    \/ NextVerify
    \/ \E vc \in SubmitArguments :
        /\ InFlight < MaxInFlight
        /\ handleSubmitCode(vc)
        /\ UNCHANGED <<apiVars, pageVars, formVars>>

SpecVerifyCalls == InitVerify /\ [][NextVerifyCalls]_vars

\* One request at a time, bodies well-formed or not: the handlers' contracts.
NextApi ==
    \/ \E body \in CategoryBodies : PostCategory(body) /\ UNCHANGED <<uiVars, orderItems>>
    \/ \E id \in CatIds, body \in CategoryBodies :
        /\ EditFormOffers(id, body)
        /\ PutCategory(id, body)
        /\ UNCHANGED <<uiVars, orderItems>>
    \/ \E id \in CatIds : DeleteCategory(id) /\ UNCHANGED <<uiVars, orderItems>>
    \/ \E body \in ProductBodies : PostProduct(body) /\ UNCHANGED <<uiVars, orderItems>>
    \/ \E id \in ProdIds, body \in ProductBodies :
        PutProduct(id, body) /\ UNCHANGED <<uiVars, orderItems>>

SpecApi == Init /\ [][NextApi]_vars

\* ---------------------------------------------------------------- properties
HasChild(id) == \E c \in DOMAIN categories : categories[c].parentId = id

HasProduct(id) == \E p \in DOMAIN products : products[p].categoryId = id

\* C1: a DELETE of a category that has a product or a child category is
\* answered 400, and the request leaves the categories (every name and parent
\* reference) and the products as they were.
C1_DeleteWithDependentsRejected ==
    [][\A id \in CatIds :
        (/\ DeleteCategory(id)
         /\ id \in DOMAIN categories
         /\ (HasProduct(id) \/ HasChild(id)))
        => (/\ last'.status = 400
            /\ categories' = categories
            /\ products' = products)]_vars

C1_Witness ==
    /\ last = [op |-> "DELETE /categories", status |-> 400]
    /\ \E id \in DOMAIN categories : HasChild(id)
    /\ \E id \in DOMAIN categories : HasProduct(id)

\* Following parent references from category from reaches target within fuel
\* steps.
RECURSIVE ReachesUp(_, _, _, _)
ReachesUp(cats, from, target, fuel) ==
    /\ fuel > 0
    /\ from \in DOMAIN cats
    /\ cats[from].parentId # NULL
    /\ \/ cats[from].parentId = target
       \/ ReachesUp(cats, cats[from].parentId, target, fuel - 1)

\* C2: the parent graph is acyclic: no category is its own ancestor.
C2_ParentGraphAcyclic ==
    \A c \in DOMAIN categories :
        ~ReachesUp(categories, c, c, Cardinality(DOMAIN categories))

\* C3: every non-null parent reference names a category that exists, under any
\* interleaving of category create, update and delete requests.
C3_ParentExists ==
    \A c \in DOMAIN categories :
        categories[c].parentId # NULL => categories[c].parentId \in DOMAIN categories

\* The insert of a POST /categories was refused: its parent was deleted after
\* the handler had found it.
C3_Witness ==
    /\ last = [op |-> "POST /categories", status |-> 500]
    /\ catSeq < MaxCats

\* C4: no product references a category that no longer exists, under any
\* interleaving of category deletes with product creates and updates.
C4_ProductCategoryExists ==
    \A p \in DOMAIN products : products[p].categoryId \in DOMAIN categories

\* The removal of a DELETE /categories was refused by the store: a product was
\* put under the category after the handler had counted none.
C4_Witness ==
    /\ last = [op |-> "DELETE /categories", status |-> 500]
    /\ \E p \in DOMAIN products : products[p].categoryId \in DOMAIN categories

\* C5: a delete never removes a category that has a child category at the
\* moment its row is removed, so no parent reference is nulled by a deletion.
C5_NoParentNulling ==
    [][\A id \in DOMAIN categories :
        id \notin DOMAIN categories' => ~HasChild(id)]_vars

\* The list buildCategoryTree is given on the page.
Input == filteredCategories(pageCategories, searchTerm, showOnlyParents)

IdsOf(cats) == {cats[i].id : i \in DOMAIN cats}

DistinctIds(cats) == \A i, j \in DOMAIN cats : cats[i].id = cats[j].id => i = j

\* Following the parent references of the list from identifier from reaches
\* target within fuel steps.
RECURSIVE ListReachesUp(_, _, _, _)
ListReachesUp(cats, from, target, fuel) ==
    /\ fuel > 0
    /\ \E i \in DOMAIN cats :
        /\ cats[i].id = from
        /\ cats[i].parentId # NULL
        /\ \/ cats[i].parentId = target
           \/ ListReachesUp(cats, cats[i].parentId, target, fuel - 1)

IsForest(cats) ==
    \A i \in DOMAIN cats : ~ListReachesUp(cats, cats[i].id, cats[i].id, Len(cats))

SeqRange(q) == {q[i] : i \in DOMAIN q}

\* The places of identifier id in the result: <<NULL, i>> is place i of the
\* root sequence, <<p, i>> place i of the children of node p.
Positions(t, id) ==
    {<<NULL, i>> : i \in {k \in DOMAIN t.tree : t.tree[k] = id}}
        \cup UNION {{<<p, i>> : i \in {k \in DOMAIN t.children[p] : t.children[p][k] = id}} :
                        p \in DOMAIN t.children}

RECURSIVE Descend(_, _)
Descend(t, nodes) ==
    LET more == nodes \cup UNION {SeqRange(t.children[n]) : n \in nodes}
    IN  IF more = nodes THEN nodes ELSE Descend(t, more)

\* The nodes reachable from the returned roots.
ReachableFromRoots(t) == Descend(t, SeqRange(t.tree))

\* C6: for a list of categories with distinct identifiers whose parent
\* references form a forest, buildCategoryTree puts every category at exactly
\* one place, and the nodes reachable from the roots are as many as the input.
C6_TreePartition ==
    (DistinctIds(Input) /\ IsForest(Input))
    => /\ \A i \in DOMAIN Input :
            Cardinality(Positions(categoryTree, Input[i].id)) = 1
       /\ Cardinality(ReachableFromRoots(categoryTree)) = Len(Input)

\* A forest of three categories, two levels deep, is shown whole.
C6_Witness ==
    /\ Len(Input) = MaxTreeCats
    /\ IsForest(Input)
    /\ \E p \in DOMAIN categoryTree.children, c \in DOMAIN categoryTree.children :
        /\ p \in SeqRange(categoryTree.tree)
        /\ c \in SeqRange(categoryTree.children[p])
        /\ categoryTree.children[c] # <<>>

\* C7: a category whose parent is absent from the filtered list is put in the
\* root sequence and keeps as children the listed categories whose parent it
\* is.
C7_OrphanPromoted ==
    \A i \in DOMAIN Input :
        (Input[i].parentId # NULL /\ Input[i].parentId \notin IdsOf(Input))
        => /\ Input[i].id \in SeqRange(categoryTree.tree)
           /\ \A j \in DOMAIN Input :
                Input[j].parentId = Input[i].id
                => Input[j].id \in SeqRange(categoryTree.children[Input[i].id])

\* {A root, B under A, C under B}, A filtered out by the search: B is the only
\* root and C its only child.
C7_Witness ==
    \E a, b, c \in DOMAIN pageCategories :
        /\ Len(pageCategories) = 3
        /\ pageCategories[a].parentId = NULL
        /\ pageCategories[b].parentId = pageCategories[a].id
        /\ pageCategories[c].parentId = pageCategories[b].id
        /\ searchTerm # <<>>
        /\ ~showOnlyParents
        /\ IdsOf(Input) = {pageCategories[b].id, pageCategories[c].id}
        /\ categoryTree.tree = <<pageCategories[b].id>>
        /\ categoryTree.children[pageCategories[b].id] = <<pageCategories[c].id>>

\* The place of identifier id in the list.
IndexOf(cats, id) == CHOOSE i \in DOMAIN cats : cats[i].id = id

InInputOrder(q) ==
    \A i, j \in DOMAIN q : i < j => IndexOf(Input, q[i]) < IndexOf(Input, q[j])

\* C8: the categories of one sequence of the result (the roots, or the
\* children of one node) stand in the order they have in the input list.
C8_StablePartition ==
    /\ InInputOrder(categoryTree.tree)
    /\ \A p \in DOMAIN categoryTree.children : InInputOrder(categoryTree.children[p])

\* Two children in the order of the list, which is not the order of their
\* identifiers.
C8_Witness ==
    \E p \in DOMAIN categoryTree.children :
        /\ Len(categoryTree.children[p]) = 2
        /\ categoryTree.children[p][1] > categoryTree.children[p][2]
        /\ p \in SeqRange(categoryTree.tree)

\* The name is absent, empty or made of spaces only.
BlankName(body) ==
    "name" \in DOMAIN body => \A i \in DOMAIN body.name : body.name[i] = " "

\* The parent identifier is supplied and names no category.
UnresolvedParent(body) ==
    /\ "parentId" \in DOMAIN body
    /\ body.parentId # NULL
    /\ body.parentId \notin DOMAIN categories

\* C9: POST /categories with a missing, empty or whitespace-only name, or with
\* a parent identifier that names no category, is answered 400 and inserts no
\* row: the store is unchanged.
C9_PostCategoryRejected ==
    [][\A body \in CategoryBodies :
        (PostCategory(body) /\ (BlankName(body) \/ UnresolvedParent(body)))
        => (last'.status = 400 /\ UNCHANGED storeVars)]_vars

C9_Witness ==
    /\ last = [op |-> "POST /categories", status |-> 400]
    /\ DOMAIN categories # {}

AllSpaces(s) == \A i \in DOMAIN s : s[i] = " "

\* t is s without its leading and trailing spaces.
IsTrimOf(t, s) ==
    /\ t # <<>> => (t[1] # " " /\ t[Len(t)] # " ")
    /\ \E i \in 0..Len(s), j \in 0..Len(s) :
        /\ i + Len(t) + j = Len(s)
        /\ AllSpaces(SubSeq(s, 1, i))
        /\ SubSeq(s, i + 1, i + Len(t)) = t
        /\ AllSpaces(SubSeq(s, i + Len(t) + 1, Len(s)))

\* C10: POST /categories with a name that is not blank and either no parent
\* identifier or the identifier of an existing category inserts exactly one
\* category, named by the trimmed input, whose parent reference is that
\* category (null without one), and changes no other category.
C10_PostCategoryCreates ==
    [][\A body \in CategoryBodies :
        (PostCategory(body) /\ ~BlankName(body) /\ ~UnresolvedParent(body))
        => (/\ last'.status = 200
            /\ \E n \in DOMAIN categories' \ DOMAIN categories :
                /\ DOMAIN categories' = DOMAIN categories \cup {n}
                /\ IsTrimOf(categories'[n].name, body.name)
                /\ categories'[n].parentId =
                        (IF "parentId" \in DOMAIN body THEN body.parentId ELSE NULL)
            /\ \A c \in DOMAIN categories : categories'[c] = categories[c]
            /\ products' = products)]_vars

\* A category was created under an existing one, its name trimmed.
C10_Witness ==
    /\ last = [op |-> "POST /categories", status |-> 200]
    /\ \E c \in DOMAIN categories :
        /\ categories[c].parentId \in DOMAIN categories
        /\ categories[c].name = <<"a">>
        /\ categories[c].createdAt = catSeq
    /\ \E c \in DOMAIN categories : categories[c].parentId = NULL

\* C11: PUT /categories/{id} is answered 404 when the identifier names no
\* category and 400 when the name is blank or the supplied parent identifier
\* names no category (one of the two when both hold); in each case every
\* category keeps its name and its parent reference.
C11_PutCategoryRejected ==
    [][\A id \in CatIds, body \in CategoryBodies :
        PutCategory(id, body)
        => /\ (id \notin DOMAIN categories \/ BlankName(body) \/ UnresolvedParent(body))
                => (last'.status \in {400, 404} /\ categories' = categories)
           /\ (id \notin DOMAIN categories /\ ~BlankName(body) /\ ~UnresolvedParent(body))
                => last'.status = 404
           /\ (id \in DOMAIN categories /\ (BlankName(body) \/ UnresolvedParent(body)))
                => last'.status = 400]_vars

\* An update of an unknown identifier was refused while a category is stored.
C11_Witness ==
    /\ last = [op |-> "PUT /categories", status |-> 404]
    /\ \E c \in DOMAIN categories : categories[c].parentId = NULL

\* C12: DELETE /categories/{id} of a category without products and without
\* child categories is answered 200 and removes that row only: every other
\* category and every product is unchanged.
C12_DeleteLeafCategory ==
    [][\A id \in CatIds :
        (/\ DeleteCategory(id)
         /\ id \in DOMAIN categories
         /\ productsCount(products, id) = 0
         /\ childrenCount(categories, id) = 0)
        => (/\ last'.status = 200
            /\ DOMAIN categories' = DOMAIN categories \ {id}
            /\ \A c \in DOMAIN categories \ {id} : categories'[c] = categories[c]
            /\ products' = products)]_vars

\* A leaf category was deleted; its parent and a product are still stored.
C12_Witness ==
    /\ last = [op |-> "DELETE /categories", status |-> 200]
    /\ catSeq = MaxCats
    /\ Cardinality(DOMAIN categories) = MaxCats - 1
    /\ DOMAIN products # {}

\* C13: every category GET /categories returns carries as childrenCount the
\* number of categories whose parent reference it is and as productsCount the
\* number of products whose category it is, and nothing from further down.
C13_DirectCounts ==
    [][fetchCategories
        => \A i \in DOMAIN pageCategories' :
            /\ pageCategories'[i].childrenCount =
                    Cardinality({c \in DOMAIN categories :
                                    categories[c].parentId = pageCategories'[i].id})
            /\ pageCategories'[i].productsCount =
                    Cardinality({q \in DOMAIN products :
                                    products[q].categoryId = pageCategories'[i].id})]_vars

\* A listed category with one child, one grandchild and a product under the
\* child: it reports one child and no product.
C13_Witness ==
    /\ last = [op |-> "GET /categories", status |-> 200]
    /\ \E i, j, k \in DOMAIN pageCategories :
        /\ pageCategories[j].parentId = pageCategories[i].id
        /\ pageCategories[k].parentId = pageCategories[j].id
        /\ pageCategories[i].parentId = NULL
        /\ pageCategories[i].childrenCount = 1
        /\ pageCategories[i].productsCount = 0
        /\ pageCategories[j].productsCount = 1

C15_NewestFirst ==
    [][fetchCategories
        => /\ IdsOf(pageCategories') = DOMAIN categories
           /\ DistinctIds(pageCategories')
           /\ \A i, j \in DOMAIN pageCategories' :
                i < j => categories[pageCategories'[i].id].createdAt
                            > categories[pageCategories'[j].id].createdAt]_vars

\* The listing after the category created second was deleted: the third,
\* then the first.
C15_Witness ==
    /\ last = [op |-> "GET /categories", status |-> 200]
    /\ Len(pageCategories) = 2
    /\ pageCategories[1].id = 3
    /\ pageCategories[2].id = 1

\* C16: the category a successful POST /categories returns has productsCount
\* 0 and childrenCount 0, whatever requests are in flight.
C16_CreatedIsLeaf ==
    [][(last'.op = "POST /categories" /\ last'.status = 200)
        => /\ catSeq' = catSeq + 1
           /\ PostCategoryResponse(categories', products', catSeq').productsCount = 0
           /\ PostCategoryResponse(categories', products', catSeq').childrenCount = 0]_vars

\* A category was created under a parent while an update of a category had
\* passed its checks and not written yet.
C16_Witness ==
    /\ last = [op |-> "POST /categories", status |-> 200]
    /\ catSeq \in DOMAIN categories
    /\ categories[catSeq].parentId # NULL
    /\ \E r \in BagToSet(pending) : r.op = "PUT /categories"

\* C17: when a category row is removed, no other row is removed; every
\* category whose parent reference was the removed row has a null parent
\* reference afterwards and is otherwise unchanged, and every other category
\* is unchanged.
C17_DeleteSetsNull ==
    [][\A id \in DOMAIN categories \ DOMAIN categories' :
        /\ DOMAIN categories' = DOMAIN categories \ {id}
        /\ \A c \in DOMAIN categories' :
            /\ categories'[c].name = categories[c].name
            /\ categories'[c].createdAt = categories[c].createdAt
            /\ categories'[c].parentId =
                    (IF categories[c].parentId = id THEN NULL ELSE categories[c].parentId)]_vars

\* The page listed a category under a parent; the parent row is gone and the
\* category is a root.
C17_Witness ==
    /\ last = [op |-> "DELETE /categories", status |-> 200]
    /\ \E i \in DOMAIN pageCategories :
        /\ pageCategories[i].parentId # NULL
        /\ pageCategories[i].parentId \notin DOMAIN categories
        /\ pageCategories[i].id \in DOMAIN categories
        /\ categories[pageCategories[i].id].parentId = NULL

\* The variant lacks size, colour or price, or its quantity is negative.
VariantInvalid(v) ==
    \/ ~({"size", "color", "price"} \subseteq DOMAIN v)
    \/ ("quantity" \in DOMAIN v /\ v.quantity < 0)

\* A required field of the product is missing or empty, its category does
\* not exist, or one of its variants is invalid.
ProductInvalid(body) ==
    \/ BlankName(body)
    \/ "categoryId" \notin DOMAIN body
    \/ body.categoryId \notin DOMAIN categories
    \/ "variants" \notin DOMAIN body
    \/ body.variants = <<>>
    \/ \E i \in DOMAIN body.variants : VariantInvalid(body.variants[i])

\* C18: a create or update request for a category or a product whose body
\* has a validation error (a missing or empty required field, an unresolved
\* category or parent, a variant without size, colour or price or with a
\* negative quantity) is answered 400.
C18_ValidationErrorIs400 ==
    [][/\ \A body \in CategoryBodies :
            (PostCategory(body) /\ (BlankName(body) \/ UnresolvedParent(body)))
            => last'.status = 400
       /\ \A id \in DOMAIN categories, body \in CategoryBodies :
            (PutCategory(id, body) /\ (BlankName(body) \/ UnresolvedParent(body)))
            => last'.status = 400
       /\ \A body \in ProductBodies :
            (PostProduct(body) /\ ProductInvalid(body)) => last'.status = 400
       /\ \A id \in DOMAIN products, body \in ProductBodies :
            (PutProduct(id, body) /\ ProductInvalid(body)) => last'.status = 400]_vars

\* C19: a product create or update that is not answered 200 leaves every
\* product, with its variants, images and attributes, as it was; one that is
\* answered 200 has written the product and all the submitted variants.
C19_ProductAllOrNothing ==
    [][/\ (last'.op \in {"POST /products", "PUT /products"} /\ last'.status # 200)
            => products' = products
       /\ (last'.op = "PUT /products" /\ last'.status = 200)
            => \A id \in ProdIds, body \in ProductBodies :
                PutProduct(id, body)
                => /\ Len(products'[id].variants) = Len(body.variants)
                   /\ products'[id].categoryId = body.categoryId
       /\ (last'.op = "POST /products" /\ last'.status = 200)
            => \A body \in ProductBodies :
                PostProduct(body)
                => /\ DOMAIN products' = DOMAIN products \cup {prodSeq'}
                   /\ Len(products'[prodSeq'].variants) = Len(body.variants)]_vars

\* An update threw at its second variant, after the old variants were deleted
\* and the first new one inserted; the product still has its variant and the
\* variant its image.
C19_Witness ==
    /\ last = [op |-> "PUT /products", status |-> 500]
    /\ \E p \in DOMAIN products :
        /\ Len(products[p].variants) = 1
        /\ products[p].variants[1].images # <<>>

\* An order line item references a variant of product id.
VariantReferenced(id) == \E it \in orderItems : it[1] = id

\* C20: DELETE /products/{id} of a product one of whose variants an order
\* line item references fails and removes nothing: the products, their
\* variants, images and attributes and the line items are as before, and
\* every line item references a stored variant.
C20_DeleteProductBlocked ==
    [][\A id \in DOMAIN products :
        (DeleteProduct(id) /\ VariantReferenced(id))
        => /\ last'.status >= 400
           /\ products' = products
           /\ orderItems' = orderItems
           /\ \A it \in orderItems' :
                /\ it[1] \in DOMAIN products'
                /\ it[2] \in DOMAIN products'[it[1]].variants]_vars

\* The delete of a product with an ordered variant was refused; the product
\* has its variants and the variant its image.
C20_Witness ==
    /\ last = [op |-> "DELETE /products", status |-> 500]
    /\ \E it \in orderItems :
        /\ it[1] \in DOMAIN products
        /\ Len(products[it[1]].variants) = 2
        /\ products[it[1]].variants[1].images # <<>>
        /\ products[it[1]].variants[2].attributes # <<>>

\* C21: DELETE /products/{id} of a stored product none of whose variants an
\* order line item references is answered 200; the product, with its
\* variants, images and attributes, is no longer stored, and every other
\* product is unchanged. No foreign key of the product's own rows refuses a
\* step of the transaction.
C21_DeleteProductRemovesAll ==
    [][\A id \in DOMAIN products :
        (DeleteProduct(id) /\ ~VariantReferenced(id))
        => /\ last'.status = 200
           /\ DeleteProductTx(products, orderItems, id).ok
           /\ DOMAIN products' = DOMAIN products \ {id}
           /\ \A p \in DOMAIN products \ {id} : products'[p] = products[p]]_vars

\* The first of two products was deleted; the second, with a variant, its
\* image and its attribute, is stored.
C21_Witness ==
    /\ last = [op |-> "DELETE /products", status |-> 200]
    /\ DOMAIN products = {2}
    /\ \E i, j \in DOMAIN products[2].variants :
        /\ products[2].variants[i].images # <<>>
        /\ products[2].variants[j].attributes # <<>>

RECURSIVE SeqSum(_)
SeqSum(q) == IF q = <<>> THEN 0 ELSE Head(q) + SeqSum(Tail(q))

\* The counts and the price range of response r are those of the stored
\* product.
CountsAndPricesOf(r, product) ==
    LET vs == product.variants
    IN  /\ r.variantsCount = Len(vs)
        /\ r.totalQuantity = SeqSum([i \in DOMAIN vs |-> vs[i].quantity])
        /\ r.minPrice <= r.maxPrice
        /\ IF vs = <<>> THEN r.minPrice = 0 /\ r.maxPrice = 0
           ELSE /\ \E i \in DOMAIN vs : vs[i].price = r.minPrice
                /\ \E i \in DOMAIN vs : vs[i].price = r.maxPrice
                /\ \A i \in DOMAIN vs : r.minPrice <= vs[i].price /\ vs[i].price <= r.maxPrice

\* C24: in the response of GET /products, and in the response of a
\* successful create or update, every product carries the number of its
\* variants, the sum of their quantities and the least and the greatest of
\* their prices (0 and 0 without variants), the least not above the greatest.
C24_ResponseAggregates ==
    [][/\ GetProducts
            => \A i \in DOMAIN GetProductsResponse(products) :
                CountsAndPricesOf(GetProductsResponse(products)[i],
                                  products[ProductsNewestFirst(products)[i]])
       /\ (last'.op = "PUT /products" /\ last'.status = 200)
            => \A id \in DOMAIN products : \A body \in RaceProductBodies :
                PutProduct(id, body)
                => CountsAndPricesOf(PutProductResponse(products', id), products'[id])
       /\ (last'.op = "POST /products" /\ last'.status = 200)
            => CountsAndPricesOf(PostProductResponse(products', prodSeq'),
                                 products'[prodSeq'])]_vars

\* The list of two products was answered: one without variants, one with two
\* variants of different prices.
C24_Witness ==
    /\ last = [op |-> "GET /products", status |-> 200]
    /\ \E i, j \in DOMAIN GetProductsResponse(products) :
        /\ GetProductsResponse(products)[i].variantsCount = 0
        /\ GetProductsResponse(products)[j].variantsCount = 2
        /\ GetProductsResponse(products)[j].minPrice
                < GetProductsResponse(products)[j].maxPrice
        /\ GetProductsResponse(products)[j].totalQuantity > 2

\* The variants of the product that have a main-flagged image, and those
\* that have an image.
WithMain(vs) == {i \in DOMAIN vs : \E j \in DOMAIN vs[i].images : vs[i].images[j].isMain}

WithImage(vs) == {i \in DOMAIN vs : vs[i].images # <<>>}

\* The mainImage of response r is the one the stored product determines.
MainImageOf(r, product) ==
    LET vs == product.variants
    IN  /\ WithMain(vs) # {}
            => LET v == vs[FirstOf(WithMain(vs))]
               IN  r.mainImage = <<v.images[FirstOf(MainPlaces(v.images))].imageUrl>>
        /\ (WithMain(vs) = {} /\ WithImage(vs) # {})
            => r.mainImage = <<vs[FirstOf(WithImage(vs))].images[1].imageUrl>>
        /\ (r.mainImage = <<>>) <=> (WithImage(vs) = {})

\* C25: the mainImage of a product response is the main-flagged image of the
\* first variant that has one; without any, the first image of the first
\* variant that has an image; and null exactly when no variant has an image.
C25_MainImage ==
    [][/\ GetProducts
            => \A i \in DOMAIN GetProductsResponse(products) :
                MainImageOf(GetProductsResponse(products)[i],
                            products[ProductsNewestFirst(products)[i]])
       /\ (last'.op = "PUT /products" /\ last'.status = 200)
            => \A id \in DOMAIN products : \A body \in RaceProductBodies :
                PutProduct(id, body)
                => MainImageOf(PutProductResponse(products', id), products'[id])
       /\ (last'.op = "POST /products" /\ last'.status = 200)
            => MainImageOf(PostProductResponse(products', prodSeq'),
                           products'[prodSeq'])]_vars

\* The list was answered for a product whose first variant has an image
\* that is not flagged and whose second variant has a flagged one, and for a
\* product without images.
C25_Witness ==
    /\ last = [op |-> "GET /products", status |-> 200]
    /\ \E p, q \in DOMAIN products :
        /\ Len(products[p].variants) = 2
        /\ MainPlaces(products[p].variants[1].images) = {}
        /\ products[p].variants[1].images # <<>>
        /\ MainPlaces(products[p].variants[2].images) # {}
        /\ ProductResponse(products[p]).mainImage
                = <<products[p].variants[2].images[
                        FirstOf(MainPlaces(products[p].variants[2].images))].imageUrl>>
        /\ ProductResponse(products[q]).mainImage = <<>>

\* C23: every stored variant has at most one main image, and a variant with
\* images has exactly one: the first of its images, the first of the list
\* that was submitted.
C23_OneMainImage ==
    \A p \in DOMAIN products : \A i \in DOMAIN products[p].variants :
        LET images == products[p].variants[i].images
        IN  /\ Cardinality(MainPlaces(images)) <= 1
            /\ images # <<>> => MainPlaces(images) = {1}

\* A variant submitted with two images is stored.
C23_Witness ==
    \E p \in DOMAIN products : \E i \in DOMAIN products[p].variants :
        /\ Len(products[p].variants[i].images) = 2
        /\ products[p].variants[i].images[1].imageUrl = GalleryVariant.images[1]
        /\ products[p].variants[i].images[1].isMain
        /\ ~products[p].variants[i].images[2].isMain

\* Stored variant row is the submitted variant v: its columns, its attributes
\* and its images in the submitted order, texts trimmed.
RowOfSubmitted(row, v) ==
    /\ IsTrimOf(row.size, v.size) /\ IsTrimOf(row.color, v.color)
    /\ row.quantity = v.quantity /\ row.price = v.price
    /\ Len(row.attributes) = Len(v.attributes)
    /\ \A a \in DOMAIN v.attributes :
        /\ IsTrimOf(row.attributes[a].name, v.attributes[a].name)
        /\ IsTrimOf(row.attributes[a].value, v.attributes[a].value)
    /\ Len(row.images) = Len(v.images)
    /\ \A a \in DOMAIN v.images : IsTrimOf(row.images[a].imageUrl, v.images[a])

\* C26: after a successful PUT /products/{id} the stored variants of the
\* product are exactly the submitted ones, one row per submitted variant in
\* the submitted order with its attributes and images; no variant, image or
\* attribute that was stored before remains.
C26_PutReplacesVariants ==
    [][(last'.op = "PUT /products" /\ last'.status = 200)
        => \A id \in DOMAIN products : \A body \in OrderProductBodies :
            PutProduct(id, body)
            => /\ Len(products'[id].variants) = Len(body.variants)
               /\ \A i \in DOMAIN body.variants :
                    RowOfSubmitted(products'[id].variants[i], body.variants[i])]_vars

\* A product was rewritten to hold the one variant with two images and an
\* attribute.
C26_Witness ==
    /\ last = [op |-> "PUT /products", status |-> 200]
    /\ \E p \in DOMAIN products :
        /\ Len(products[p].variants) = 1
        /\ Len(products[p].variants[1].images) = 2
        /\ Len(products[p].variants[1].attributes) = 1

\* C22: every stored product has at least one variant; a create or an
\* update whose variant list is empty or missing is answered 400 and changes
\* nothing; and the add-product form passes its data to onSubmit only with
\* at least one variant.
C22_ProductsHaveVariants ==
    /\ [](\A p \in DOMAIN products : Len(products[p].variants) >= 1)
    /\ [][\A body \in EmptyVariantsBodies :
            /\ PostProduct(body) => (last'.status = 400 /\ UNCHANGED storeVars)
            /\ \A id \in ProdIds :
                PutProduct(id, body) => (last'.status = 400 /\ UNCHANGED storeVars)]_vars
    /\ [][(handleSubmit /\ handleCreateProduct(formData))
            => Len(formData.variants) >= 1]_vars

\* An update without variants was refused while the product that the form
\* submitted is stored.
C22_Witness ==
    /\ last = [op |-> "PUT /products", status |-> 400]
    /\ products # <<>>
    /\ \A p \in DOMAIN products : Len(products[p].variants) >= 1

\* C27: while editingVariantIndex is not null it is an index of
\* formData.variants and the variant at that index is the one that was
\* opened for editing.
C27_EditingIndexValid ==
    editingVariantIndex # NULL
    => /\ editingVariantIndex \in DOMAIN formData.variants
       /\ formData.variants[editingVariantIndex].id = currentVariant.id

\* C28: the resend button is enabled only when at most 240 seconds are left
\* and no request is in flight.
C28_ResendOnlyWhenIdle ==
    (route = "/admin/verify" /\ ResendEnabled)
    => (timeLeft <= ResendAllowedAt /\ requests = EmptyBag)

\* C30: a verification request carries a code of exactly six characters,
\* whichever way handleSubmit was reached; a call with a code of another
\* length shows the error and sends nothing; and when a code is rejected all
\* six fields are cleared.
C30_OnlySixCharactersSent ==
    /\ [](\A r \in BagToSet(requests) :
            r.kind = "verify-code" => Len(r.code) = CodeLength)
    /\ [][\A vc \in SubmitArguments :
            (handleSubmitCode(vc) /\ Len(CodeToSubmit(vc)) # CodeLength)
            => (error' /\ requests' = requests)]_vars
    /\ [][\A r \in BagToSet(requests) :
            (verifyResponse(r, "rejected") \/ verifyResponse(r, "failed"))
            => (code' = EmptyCode /\ error')]_vars

\* Of two six-character codes in flight one was rejected: the fields are
\* empty, the error is shown, and the other is still in flight.
C30_Witness ==
    /\ route = "/admin/verify"
    /\ code = EmptyCode
    /\ error
    /\ ~isLoading
    /\ resends = 0
    /\ \E r \in BagToSet(requests) : r.kind = "verify-code" /\ Len(r.code) = CodeLength

\* C29: timeLeft stays within 0..300 and every tick takes exactly one
\* second off; when it is 0 the page has gone to /admin/login and the
\* interval is cleared; and with the interval running and no more codes
\* requested, the countdown reaches 0 or the page has been left before.
C29_CountdownEnds ==
    /\ [](timeLeft \in 0..CodeLifetime)
    /\ [][TickStep => timeLeft' = timeLeft - 1]_vars
    /\ [](timeLeft = 0 => (route = "/admin/login" /\ timers = EmptyBag))
    /\ <>(timeLeft = 0 \/ route # "/admin/verify")

\* The countdown ran out after a code had been requested anew.
C29_Witness ==
    /\ timeLeft = 0
    /\ route = "/admin/login"
    /\ resends = MaxResends

====
